---- MODULE Spec2Model ----
(***************************************************************************)
(* Model of the validation-and-budget engine of the marketing asset        *)
(* manager: the Asset record and its derived properties                    *)
(* (src/src/models/asset.py), the AssetValidator pipeline                  *)
(* (src/src/services/asset_validator.py) and the BudgetManager             *)
(* (src/src/services/budget_manager.py).                                   *)
(*                                                                         *)
(* Conventions.  An Optional value is a sequence of length at most one:    *)
(* None is << >> and a present value v is << v >>.  A float factor is kept *)
(* in tenths (1.2 is 12).  A performance score is an exact fraction        *)
(* << numerator, denominator >>.  Every handler is one action; what the    *)
(* outside world answers during the handler (the ads endpoint, the image   *)
(* analyzer, the expiry table, the clock) is drawn with \E.                *)
(***************************************************************************)
EXTENDS Integers, Sequences, FiniteSets, TLC

VARIABLES
    assets,              \* the Asset objects, by name of the object
    validation_results,  \* AssetValidator.validation_results
    budget_changes,      \* BudgetManager.budget_changes
    skipped_assets,      \* BudgetManager.skipped_assets
    unchanged_assets,    \* BudgetManager.unchanged_assets
    max_retries,         \* BudgetManager.max_retries
    hierarchy_settings,  \* HierarchySettings.levels
    clock,               \* number of handler calls made so far (datetime.now())
    last                 \* what the most recent handler call did and returned

vars == << assets, validation_results, budget_changes, skipped_assets,
           unchanged_assets, max_retries, hierarchy_settings, clock, last >>

----------------------------------------------------------------------------
(* Optional values and Python truthiness *)

None == << >>

Some(v) == << v >>

IsNone(o) == o = << >>

\* `not x` is false for an Optional[str] exactly when x is a non-empty string
TruthyStr(o) == o # << >> /\ o[1] # ""

\* truthiness of an Optional[int]: None and 0 are falsy
TruthyInt(o) == o # << >> /\ o[1] # 0

----------------------------------------------------------------------------
(* Bounds of the exploration *)

\* handler calls in one behaviour
MaxOps == 2

\* largest value BudgetManager(max_retries=...) is constructed with
MaxRetriesArg == 3

----------------------------------------------------------------------------
(* Asset: derived properties *)

\* variant of is_valid that accepts a quality score of exactly 5
is_valid_gt5(a) ==
    /\ a.is_valid_name
    /\ (a.is_buyout_valid \/ (~IsNone(a.quality_score) /\ a.quality_score[1] >= 5))
    /\ (~IsNone(a.is_privacy_compliant) /\ a.is_privacy_compliant[1])

is_valid(a) ==
    /\ a.is_valid_name
    /\ (a.is_buyout_valid \/ (~IsNone(a.quality_score) /\ a.quality_score[1] > 5))
    /\ (~IsNone(a.is_privacy_compliant) /\ a.is_privacy_compliant[1])

\* variant of click_through_rate that treats a click count of 0 as absent
click_through_rate_truthy_clicks(a) ==
    IF TruthyInt(a.impressions) /\ a.impressions[1] > 0 /\ TruthyInt(a.clicks)
    THEN Some(<< a.clicks[1], a.impressions[1] >>)
    ELSE None

\* clicks / impressions as << numerator, denominator >>, or None
click_through_rate(a) ==
    IF TruthyInt(a.impressions) /\ a.impressions[1] > 0 /\ ~IsNone(a.clicks)
    THEN Some(<< a.clicks[1], a.impressions[1] >>)
    ELSE None

\* conversions / clicks as << numerator, denominator >>, or None
conversion_rate(a) ==
    IF TruthyInt(a.clicks) /\ a.clicks[1] > 0 /\ ~IsNone(a.conversions)
    THEN Some(<< a.conversions[1], a.clicks[1] >>)
    ELSE None

\* `rate or 0`: None and a zero rate both become 0
RateOrZero(r) == IF IsNone(r) \/ r[1][1] = 0 THEN << 0, 1 >> ELSE r[1]

\* (ctr * 0.4) + (cvr * 0.6) as an exact fraction; the property is typed
\* Optional but every path returns a number
weighted_score(ctr, cvr) ==
    Some(<< 4 * ctr[1] * cvr[2] + 6 * cvr[1] * ctr[2], 10 * ctr[2] * cvr[2] >>)

performance_score(a) ==
    weighted_score(RateOrZero(click_through_rate(a)), RateOrZero(conversion_rate(a)))

\* variant of ScoreAbove that includes the threshold itself
ScoreAtLeast(s, n) == 10 * s[1] >= n * s[2]

\* score > n/10
ScoreAbove(s, n) == 10 * s[1] > n * s[2]

\* score < n/10
ScoreBelow(s, n) == 10 * s[1] < n * s[2]

\* Asset.update_budget(new_budget, reason) at time now
update_budget(a, new_budget, reason, now) ==
    [a EXCEPT !.previous_budget = Some(a.budget),
              !.budget = new_budget,
              !.budget_updated_at = Some(now),
              !.budget_update_reason = Some(reason)]

----------------------------------------------------------------------------
(* The external collaborators' answers *)

\* one answer of the ads endpoint: a mapping without an "error" key, a
\* mapping with one, or an exception raised by the call
AdsResponses == {"ok", "error", "raise"}

\* what the endpoint answers to the 1st, 2nd, ... call of one push
AdsScripts(n) == [1..n -> AdsResponses]

\* one answer of the image analyzer: an empty string, text that is not JSON,
\* an OpenAiError, or a JSON object whose "quality" and "privacy" keys may
\* be absent
AnalyzerFailures ==
    { [kind |-> k, quality |-> None, privacy |-> None] : k \in {"empty", "badjson", "error"} }

AnalyzerPayloads ==
    { [kind |-> "json", quality |-> q, privacy |-> p] :
        q \in {None, Some(5), Some(6)}, p \in {None, Some(TRUE), Some(FALSE)} }

AnalyzerResponses == AnalyzerFailures \cup AnalyzerPayloads

----------------------------------------------------------------------------
(* The retry loops of the two budget pushes *)

\* AssetValidator.update_asset_budget: max_retries = 3
ValidatorMaxRetries == 3

\* variant of validator_push_loop that gives up at the first exception
RECURSIVE validator_push_loop_raise_fails(_, _)
validator_push_loop_raise_fails(script, attempt) ==
    IF attempt >= ValidatorMaxRetries
    THEN [ret |-> FALSE, calls |-> attempt]
    ELSE IF script[attempt + 1] = "raise"
    THEN [ret |-> FALSE, calls |-> attempt + 1]
    ELSE IF script[attempt + 1] = "error"
    THEN IF attempt = ValidatorMaxRetries - 1
         THEN [ret |-> FALSE, calls |-> attempt + 1]
         ELSE validator_push_loop_raise_fails(script, attempt + 1)
    ELSE [ret |-> TRUE, calls |-> attempt + 1]

RECURSIVE validator_push_loop(_, _)
validator_push_loop(script, attempt) ==
    IF attempt >= ValidatorMaxRetries
    THEN [ret |-> FALSE, calls |-> attempt]
    ELSE IF script[attempt + 1] = "raise"
    THEN IF attempt = ValidatorMaxRetries - 1
         THEN [ret |-> FALSE, calls |-> attempt + 1]
         ELSE validator_push_loop(script, attempt + 1)
    ELSE IF script[attempt + 1] = "error"
    THEN IF attempt = ValidatorMaxRetries - 1
         THEN [ret |-> FALSE, calls |-> attempt + 1]
         ELSE validator_push_loop(script, attempt + 1)
    ELSE [ret |-> TRUE, calls |-> attempt + 1]

\* variant of manager_push_loop that gives up at the first error
manager_push_loop_single(script, attempt, retries) ==
    IF attempt >= retries
    THEN [ret |-> FALSE, calls |-> attempt]
    ELSE [ret |-> script[attempt + 1] = "ok", calls |-> attempt + 1]

RECURSIVE manager_push_loop(_, _, _)
manager_push_loop(script, attempt, retries) ==
    IF attempt >= retries
    THEN [ret |-> FALSE, calls |-> attempt]
    ELSE IF script[attempt + 1] = "raise"
    THEN IF attempt = retries - 1
         THEN [ret |-> FALSE, calls |-> attempt + 1]
         ELSE manager_push_loop(script, attempt + 1, retries)
    ELSE IF script[attempt + 1] = "error"
    THEN IF attempt = retries - 1
         THEN [ret |-> FALSE, calls |-> attempt + 1]
         ELSE manager_push_loop(script, attempt + 1, retries)
    ELSE [ret |-> TRUE, calls |-> attempt + 1]

----------------------------------------------------------------------------
(* AssetValidator: the validation stages *)

required_fields ==
    << "country", "language", "buyout_code", "concept", "audience",
       "transaction_side", "asset_format", "duration" >>

\* variant of validate_asset_name that asks for a file format as well
validate_asset_name_with_file_format(a) ==
    /\ \A i \in 1..Len(required_fields) : a[required_fields[i]] # ""
    /\ a.file_format # ""

validate_asset_name(a) ==
    \A i \in 1..Len(required_fields) : a[required_fields[i]] # ""

\* An expiry text is kept as its separator and its three numbers in the
\* order written: "31/12/2099" is [sep |-> "/", f |-> <<31, 12, 2099>>].
\* The empty text has no separator and no numbers; text that is no date
\* has the separator "?".
DateText(sep, n1, n2, n3) == [sep |-> sep, f |-> << n1, n2, n3 >>]

EmptyText == [sep |-> "", f |-> << >>]

GarbageText == [sep |-> "?", f |-> << >>]

IsLeap(y) == (y % 4 = 0 /\ y % 100 # 0) \/ y % 400 = 0

DaysInMonth(m, y) ==
    IF m = 2 THEN (IF IsLeap(y) THEN 29 ELSE 28)
    ELSE IF m \in {4, 6, 9, 11} THEN 30 ELSE 31

\* the formats in the order they are tried; each gives the separator and
\* the positions of day, month and year
date_formats ==
    << [sep |-> "/", d |-> 1, m |-> 2, y |-> 3],     \* %d/%m/%Y
       [sep |-> "/", d |-> 2, m |-> 1, y |-> 3],     \* %m/%d/%Y
       [sep |-> "-", d |-> 3, m |-> 2, y |-> 1],     \* %Y-%m-%d
       [sep |-> "/", d |-> 3, m |-> 2, y |-> 1] >>   \* %Y/%m/%d

\* datetime.strptime(text, fmt): the date, or None for a ValueError
strptime(text, fmt) ==
    IF text.sep # fmt.sep \/ Len(text.f) # 3 THEN None
    ELSE LET d == text.f[fmt.d]
             m == text.f[fmt.m]
             y == text.f[fmt.y]
         IN  IF /\ y \in 1000..9999
                /\ m \in 1..12
                /\ d >= 1 /\ d <= DaysInMonth(m, y)
             THEN Some([y |-> y, m |-> m, d |-> d, t |-> 0])
             ELSE None

\* variant of parse_expiration that goes through all the formats and keeps
\* the result of the last one that accepts the text
RECURSIVE parse_expiration_without_break(_, _)
parse_expiration_without_break(text, i) ==
    IF i > Len(date_formats) THEN None
    ELSE IF ~IsNone(parse_expiration_without_break(text, i + 1))
    THEN parse_expiration_without_break(text, i + 1)
    ELSE strptime(text, date_formats[i])

\* the result of the first format that accepts the text, from format i on
RECURSIVE parse_expiration(_, _)
parse_expiration(text, i) ==
    IF i > Len(date_formats) THEN None
    ELSE IF ~IsNone(strptime(text, date_formats[i])) THEN strptime(text, date_formats[i])
    ELSE parse_expiration(text, i + 1)

\* an instant is a date and t: 0 at midnight sharp, 1 later in that day
Instant(dt) == ((dt.y * 12 + dt.m) * 31 + dt.d) * 2 + dt.t

\* variant of validate_buyout_code in which the code has expired at the
\* expiry instant itself
validate_buyout_code_expired_at_expiry(a, buyout_data, now) ==
    IF a.buyout_code = "" THEN FALSE
    ELSE IF a.buyout_code \notin DOMAIN buyout_data THEN FALSE
    ELSE IF buyout_data[a.buyout_code] = EmptyText THEN FALSE
    ELSE LET expiration_date == parse_expiration(buyout_data[a.buyout_code], 1)
         IN  IF IsNone(expiration_date) THEN FALSE
             ELSE IF Instant(now) >= Instant(expiration_date[1]) THEN FALSE
             ELSE TRUE

validate_buyout_code(a, buyout_data, now) ==
    IF a.buyout_code = "" THEN FALSE
    ELSE IF a.buyout_code \notin DOMAIN buyout_data THEN FALSE
    ELSE IF buyout_data[a.buyout_code] = EmptyText THEN FALSE
    ELSE LET expiration_date == parse_expiration(buyout_data[a.buyout_code], 1)
         IN  IF IsNone(expiration_date) THEN FALSE
             ELSE IF Instant(now) > Instant(expiration_date[1]) THEN FALSE
             ELSE TRUE

\* variant of analyze_loop that asks again when the payload has no quality
RECURSIVE analyze_loop_until_quality(_, _, _)
analyze_loop_until_quality(script, attempt, retries) ==
    IF attempt >= retries
    THEN [quality_score |-> None, is_privacy_compliant |-> None, calls |-> attempt]
    ELSE LET r == script[attempt + 1] IN
         IF r.kind = "error"
         THEN IF attempt = retries - 1
              THEN [quality_score |-> None, is_privacy_compliant |-> None, calls |-> attempt + 1]
              ELSE analyze_loop_until_quality(script, attempt + 1, retries)
         ELSE IF r.kind = "empty" THEN analyze_loop_until_quality(script, attempt + 1, retries)
         ELSE IF r.kind = "badjson" THEN analyze_loop_until_quality(script, attempt + 1, retries)
         ELSE IF IsNone(r.quality) /\ attempt < retries - 1
         THEN analyze_loop_until_quality(script, attempt + 1, retries)
         ELSE [quality_score |-> r.quality,
               is_privacy_compliant |-> IF IsNone(r.privacy) THEN Some(FALSE) ELSE r.privacy,
               calls |-> attempt + 1]

\* validate_image_quality: image is "missing", "unreadable" or "ok"; script
\* gives the analyzer's answers; the result is the returned pair and the
\* number of analyzer calls made
RECURSIVE analyze_loop(_, _, _)
analyze_loop(script, attempt, retries) ==
    IF attempt >= retries
    THEN [quality_score |-> None, is_privacy_compliant |-> None, calls |-> attempt]
    ELSE LET r == script[attempt + 1] IN
         IF r.kind = "error"
         THEN IF attempt = retries - 1
              THEN [quality_score |-> None, is_privacy_compliant |-> None, calls |-> attempt + 1]
              ELSE analyze_loop(script, attempt + 1, retries)
         ELSE IF r.kind = "empty" THEN analyze_loop(script, attempt + 1, retries)
         ELSE IF r.kind = "badjson" THEN analyze_loop(script, attempt + 1, retries)
         ELSE [quality_score |-> r.quality,
               is_privacy_compliant |-> IF IsNone(r.privacy) THEN Some(FALSE) ELSE r.privacy,
               calls |-> attempt + 1]

\* variant of validate_image_quality that goes on to the analyzer when the
\* file cannot be read
validate_image_quality_without_read(image, script, retries) ==
    IF image = "missing"
    THEN [quality_score |-> None, is_privacy_compliant |-> None, calls |-> 0]
    ELSE analyze_loop(script, 0, retries)

validate_image_quality(image, script, retries) ==
    IF image = "missing"
    THEN [quality_score |-> None, is_privacy_compliant |-> None, calls |-> 0]
    ELSE IF image = "unreadable"
    THEN [quality_score |-> None, is_privacy_compliant |-> None, calls |-> 0]
    ELSE analyze_loop(script, 0, retries)

\* a reason text; "Low quality score: {score}" carries its score
Reason(text) == [text |-> text, score |-> None]

LowQualityReason(score) == [text |-> "Low quality score: ", score |-> Some(score)]

\* variant of _get_validation_failure_reasons that looks at the privacy
\* result only when the quality gave no reason
_get_validation_failure_reasons_quality_first(a) ==
    (IF ~a.is_valid_name THEN << Reason("Invalid filename format") >> ELSE << >>)
    \o (IF ~a.is_buyout_valid THEN << Reason("Expired or invalid buyout code") >> ELSE << >>)
    \o (IF IsNone(a.quality_score) THEN << Reason("Quality check failed") >>
        ELSE IF a.quality_score[1] <= 5 THEN << LowQualityReason(a.quality_score[1]) >>
        ELSE IF IsNone(a.is_privacy_compliant) THEN << Reason("Privacy compliance check failed") >>
        ELSE IF ~a.is_privacy_compliant[1] THEN << Reason("Not privacy compliant") >>
        ELSE << >>)

\* variant of _get_validation_failure_reasons that names the privacy only
\* when its check gave no result
_get_validation_failure_reasons_privacy_checked(a) ==
    (IF ~a.is_valid_name THEN << Reason("Invalid filename format") >> ELSE << >>)
    \o (IF ~a.is_buyout_valid THEN << Reason("Expired or invalid buyout code") >> ELSE << >>)
    \o (IF IsNone(a.quality_score) THEN << Reason("Quality check failed") >>
        ELSE IF a.quality_score[1] <= 5 THEN << LowQualityReason(a.quality_score[1]) >>
        ELSE << >>)
    \o (IF IsNone(a.is_privacy_compliant) THEN << Reason("Privacy compliance check failed") >>
        ELSE << >>)

_get_validation_failure_reasons(a) ==
    (IF ~a.is_valid_name THEN << Reason("Invalid filename format") >> ELSE << >>)
    \o (IF ~a.is_buyout_valid THEN << Reason("Expired or invalid buyout code") >> ELSE << >>)
    \o (IF IsNone(a.quality_score) THEN << Reason("Quality check failed") >>
        ELSE IF a.quality_score[1] <= 5 THEN << LowQualityReason(a.quality_score[1]) >>
        ELSE << >>)
    \o (IF IsNone(a.is_privacy_compliant) THEN << Reason("Privacy compliance check failed") >>
        ELSE IF ~a.is_privacy_compliant[1] THEN << Reason("Not privacy compliant") >>
        ELSE << >>)

\* variant of validator_update_asset_budget that does not look at file_id
validator_update_without_file_check(a, set_to_zero, script) ==
    IF ~TruthyStr(a.ad_id)
    THEN [ret |-> FALSE, calls |-> 0, new_budget |-> None]
    ELSE [ret |-> validator_push_loop(script, 0).ret,
          calls |-> validator_push_loop(script, 0).calls,
          new_budget |-> Some(IF set_to_zero THEN 0 ELSE a.budget)]

\* AssetValidator.update_asset_budget(asset, set_to_zero): the value
\* returned, the number of calls made to the ads endpoint and the budget
\* sent with them; the asset is only read
validator_update_asset_budget(a, set_to_zero, script) ==
    IF ~TruthyStr(a.ad_id)
    THEN [ret |-> FALSE, calls |-> 0, new_budget |-> None]
    ELSE IF ~TruthyStr(a.file_id)
    THEN [ret |-> FALSE, calls |-> 0, new_budget |-> None]
    ELSE LET r == validator_push_loop(script, 0)
         IN  [ret |-> r.ret, calls |-> r.calls,
              new_budget |-> Some(IF set_to_zero THEN 0 ELSE a.budget)]

\* variant of zero_budget_pushes that skips the push for a badly named asset
zero_budget_pushes_when_named(a3, ads_script) ==
    IF ~a3.is_buyout_valid /\ a3.is_valid_name
    THEN << validator_update_asset_budget(a3, TRUE, ads_script) >>
    ELSE << >>

\* step 4, the remote part: the zero-budget pushes invoked, each with what it
\* returned
zero_budget_pushes(a3, ads_script) ==
    IF ~a3.is_buyout_valid
    THEN << validator_update_asset_budget(a3, TRUE, ads_script) >>
    ELSE << >>

\* variant of zero_budget that zeroes the budget only after a confirmed push
zero_budget_when_pushed(a3, pushes) ==
    IF ~a3.is_buyout_valid /\ pushes[1].ret THEN [a3 EXCEPT !.budget = 0] ELSE a3

\* step 4, the local part: asset.budget = 0
zero_budget(a3, pushes) ==
    IF ~a3.is_buyout_valid THEN [a3 EXCEPT !.budget = 0] ELSE a3

\* the entry the "Report validation results" step appends for the asset
validation_entry(a4) ==
    IF is_valid(a4)
    THEN [list |-> "valid", filename |-> a4.filename, reasons |-> << >>]
    ELSE [list |-> "invalid", filename |-> a4.filename,
          reasons |-> _get_validation_failure_reasons(a4)]

\* what one validate_asset call did: the asset as it is left, the steps in
\* the order they ran, the pushes invoked and the entry appended
validate_outcome(a4, pushes, q) ==
    [asset  |-> a4,
     trace  |-> << "validate_asset_name", "validate_buyout_code",
                   "validate_image_quality" >>
                \o [i \in 1..Len(pushes) |-> "update_asset_budget"]
                \o << "report" >>,
     pushes |-> pushes,
     analyzer_calls |-> q.calls,
     valid  |-> is_valid(a4),
     entry  |-> validation_entry(a4)]

\* step 4 and the report, on the asset a3 left by steps 1 to 3
validate_report(a3, pushes, q) == validate_outcome(zero_budget(a3, pushes), pushes, q)

validate_step4(a3, q, ads_script) ==
    validate_report(a3, zero_budget_pushes(a3, ads_script), q)

\* validate_asset(asset, image_path, buyout_data)
validate_asset(a, image, analyzer_script, buyout_data, now, ads_script) ==
    LET a1 == [a EXCEPT !.is_valid_name = validate_asset_name(a)]
        a2 == [a1 EXCEPT !.is_buyout_valid = validate_buyout_code(a1, buyout_data, now)]
        q  == validate_image_quality(image, analyzer_script, 3)
        a3 == [a2 EXCEPT !.quality_score = q.quality_score,
                         !.is_privacy_compliant = q.is_privacy_compliant]
    IN  validate_step4(a3, q, ads_script)

\* get_validation_report: the counts of the report
get_validation_report(results) ==
    [total_assets   |-> Len(results.valid) + Len(results.invalid),
     valid_assets   |-> Len(results.valid),
     invalid_assets |-> Len(results.invalid),
     errors         |-> Len(results.errors)]

----------------------------------------------------------------------------
(* BudgetManager *)

\* variant of IntTenths that never gives less than 1
IntTenths_at_least_one(x) == IF x \div 10 >= 1 THEN x \div 10 ELSE 1

\* variant of IntTenths that ends one below the truncated value
IntTenths_one_below(x) == (x \div 10) - 1

\* int(x / 10) for an integer x: Python's int() truncates towards zero
IntTenths(x) == IF x >= 0 THEN x \div 10 ELSE -((-x) \div 10)

\* the change record appended to budget_changes
change_record(a, updated, new_budget, factor, reason, now) ==
    [filename |-> a.filename,
     ad_id |-> a.ad_id,
     previous_budget |-> updated.previous_budget,
     new_budget |-> new_budget,
     adjustment_factor |-> factor,
     reason |-> reason,
     timestamp |-> now]

\* variant of manager_update_asset_budget that records no change when the
\* budget stays the same
manager_update_skipping_no_change(a, factor, reason, script, retries, now) ==
    IF ~TruthyStr(a.ad_id) \/ ~TruthyStr(a.file_id)
    THEN [ret |-> FALSE, calls |-> 0, asset |-> a, changes |-> << >>]
    ELSE LET new_budget == IntTenths(a.budget * factor)
             r == manager_push_loop(script, 0, retries)
             updated == update_budget(a, new_budget, reason, now)
         IN  IF r.ret
             THEN [ret |-> TRUE, calls |-> r.calls, asset |-> updated,
                   changes |-> IF new_budget = a.budget THEN << >>
                               ELSE << change_record(a, updated, new_budget, factor,
                                                     reason, now) >>]
             ELSE [ret |-> FALSE, calls |-> r.calls, asset |-> a, changes |-> << >>]

\* variant of manager_update_asset_budget that keeps the new budget on the
\* asset when every attempt failed
manager_update_keeping_attempt(a, factor, reason, script, retries, now) ==
    IF ~TruthyStr(a.ad_id) \/ ~TruthyStr(a.file_id)
    THEN [ret |-> FALSE, calls |-> 0, asset |-> a, changes |-> << >>]
    ELSE LET new_budget == IntTenths(a.budget * factor)
             r == manager_push_loop(script, 0, retries)
             updated == update_budget(a, new_budget, reason, now)
         IN  IF r.ret
             THEN [ret |-> TRUE, calls |-> r.calls, asset |-> updated,
                   changes |-> << change_record(a, updated, new_budget, factor,
                                                reason, now) >>]
             ELSE [ret |-> FALSE, calls |-> r.calls, asset |-> updated, changes |-> << >>]

\* BudgetManager.update_asset_budget(asset, adjustment_factor, reason) with
\* the factor in tenths: the value returned, the calls made, the asset as it
\* is left and the change records appended
manager_update_asset_budget(a, factor, reason, script, retries, now) ==
    IF ~TruthyStr(a.ad_id) \/ ~TruthyStr(a.file_id)
    THEN [ret |-> FALSE, calls |-> 0, asset |-> a, changes |-> << >>]
    ELSE LET new_budget == IntTenths(a.budget * factor)
             r == manager_push_loop(script, 0, retries)
             updated == update_budget(a, new_budget, reason, now)
         IN  IF r.ret
             THEN [ret |-> TRUE, calls |-> r.calls, asset |-> updated,
                   changes |-> << change_record(a, updated, new_budget, factor,
                                                reason, now) >>]
             ELSE [ret |-> FALSE, calls |-> r.calls, asset |-> a, changes |-> << >>]

\* group_assets_by_ad: the groups in the order their ad_id first appears,
\* each with its members (names of Asset objects) in list order
RECURSIVE group_assets_by_ad(_, _, _, _)
group_assets_by_ad(ids, i, A, groups) ==
    IF i > Len(ids) THEN groups
    ELSE LET a == A[ids[i]] IN
         IF ~TruthyStr(a.ad_id) THEN group_assets_by_ad(ids, i + 1, A, groups)
         ELSE IF \E g \in 1..Len(groups) : groups[g].ad_id = a.ad_id
         THEN group_assets_by_ad(ids, i + 1, A,
                [g \in 1..Len(groups) |->
                    IF groups[g].ad_id = a.ad_id
                    THEN [groups[g] EXCEPT !.members = Append(@, ids[i])]
                    ELSE groups[g]])
         ELSE group_assets_by_ad(ids, i + 1, A,
                Append(groups, [ad_id |-> a.ad_id, members |-> << ids[i] >>]))

\* s1 < s2 for two fractions
ScoreLess(s1, s2) == s1[1] * s2[2] < s2[1] * s1[2]

\* list.sort(key=score, reverse=True): descending and stable, so assets of
\* equal score keep their order.  x is put before the first asset of a
\* strictly smaller score.
FirstOf(positions, otherwise) ==
    IF positions = {} THEN otherwise
    ELSE CHOOSE k \in positions : \A j \in positions : k <= j

InsertAt(sorted, x, pos) ==
    SubSeq(sorted, 1, pos - 1) \o << x >> \o SubSeq(sorted, pos, Len(sorted))

InsertByScore(sorted, x, A) ==
    InsertAt(sorted, x,
             FirstOf({ k \in 1..Len(sorted) :
                         ScoreLess(performance_score(A[sorted[k]])[1],
                                   performance_score(A[x])[1]) },
                     Len(sorted) + 1))

RECURSIVE SortByScore(_, _, _, _)
SortByScore(ids, i, A, sorted) ==
    IF i > Len(ids) THEN sorted
    ELSE SortByScore(ids, i + 1, A, InsertByScore(sorted, ids[i], A))

Max(x, y) == IF x >= y THEN x ELSE y

\* variant of outlier_slices that takes sorted_assets[:low_count] as the low
\* performers too
outlier_slices_from_the_top(sorted, top_count, low_count) ==
    [top |-> SubSeq(sorted, 1, top_count),
     low |-> SubSeq(sorted, 1, low_count)]

\* sorted_assets[:top_count] and sorted_assets[-low_count:]
outlier_slices(sorted, top_count, low_count) ==
    [top |-> SubSeq(sorted, 1, top_count),
     low |-> SubSeq(sorted, Len(sorted) - low_count + 1, Len(sorted))]

\* the outliers of the assets that have a score, once sorted
outliers_of_sorted(sorted) ==
    outlier_slices(sorted, Max(1, Len(sorted) \div 4), Max(1, Len(sorted) \div 4))

outliers_with_scores(with_scores, A) ==
    IF with_scores = << >> THEN [top |-> << >>, low |-> << >>]
    ELSE outliers_of_sorted(SortByScore(with_scores, 1, A, << >>))

\* identify_performance_outliers: (top_performers, low_performers)
identify_performance_outliers(ids, A) ==
    IF ids = << >> THEN [top |-> << >>, low |-> << >>]
    ELSE outliers_with_scores(
             SelectSeq(ids, LAMBDA x : ~IsNone(performance_score(A[x]))), A)

\* `asset in some_list` for a dataclass: equality of all fields
InList(x, ids, A) == \E k \in 1..Len(ids) : A[ids[k]] = A[x]

\* one self.update_asset_budget(...) call made by adjust_budgets_by_performance;
\* counter names the total that a True result increments
\* variant of adjust_count that counts every attempted update
adjust_count_attempts(st, x, factor, counter, r) ==
    [st EXCEPT !.assets[x] = r.asset,
               !.budget_changes = @ \o r.changes,
               !.updates = Append(@, [asset |-> x, factor |-> factor,
                                      ret |-> r.ret, calls |-> r.calls]),
               !.total_increased = IF counter = "increased" THEN @ + 1 ELSE @,
               !.total_decreased = IF counter = "decreased" THEN @ + 1 ELSE @]

\* the state after one update call with result r: the totals grow only on True
adjust_count(st, x, factor, counter, r) ==
    [st EXCEPT !.assets[x] = r.asset,
               !.budget_changes = @ \o r.changes,
               !.updates = Append(@, [asset |-> x, factor |-> factor,
                                      ret |-> r.ret, calls |-> r.calls]),
               !.total_increased = IF counter = "increased" /\ r.ret THEN @ + 1 ELSE @,
               !.total_decreased = IF counter = "decreased" /\ r.ret THEN @ + 1 ELSE @]

adjust_update(st, x, factor, reason, counter, scripts, retries, now) ==
    adjust_count(st, x, factor, counter,
                 manager_update_asset_budget(st.assets[x], factor, reason,
                                             scripts[Len(st.updates) + 1], retries, now))

RECURSIVE adjust_update_each(_, _, _, _, _, _, _, _, _)
adjust_update_each(st, ids, i, factor, reason, counter, scripts, retries, now) ==
    IF i > Len(ids) THEN st
    ELSE adjust_update_each(
             adjust_update(st, ids[i], factor, reason, counter, scripts, retries, now),
             ids, i + 1, factor, reason, counter, scripts, retries, now)

UnchangedEntry(a, reason) ==
    [filename |-> a.filename, reason |-> reason, asset_id |-> a.file_id,
     ad_id |-> a.ad_id, budget |-> a.budget, performance_score |-> performance_score(a)]

RECURSIVE adjust_track_unchanged(_, _, _)
adjust_track_unchanged(st, ids, i) ==
    IF i > Len(ids) THEN st
    ELSE adjust_track_unchanged(
             [st EXCEPT !.unchanged_assets =
                 Append(@, UnchangedEntry(st.assets[ids[i]], "Average performer - budget unchanged"))],
             ids, i + 1)

\* the assets between the outliers are tracked and counted as unchanged
adjust_middle(st, middle) ==
    [adjust_track_unchanged(st, middle, 1) EXCEPT !.total_unchanged = @ + Len(middle)]

\* an ad of several assets: the top performers are raised, then the low
\* performers are cut, then the others are tracked
adjust_outliers(st, members, out, scripts, retries, now) ==
    adjust_middle(
        adjust_update_each(
            adjust_update_each(st, out.top, 1, 12, "Top performer - budget increased by 20%",
                               "increased", scripts, retries, now),
            out.low, 1, 8, "Low performer - budget decreased by 20%",
            "decreased", scripts, retries, now),
        SelectSeq(members,
                  LAMBDA x : ~InList(x, out.top, st.assets) /\ ~InList(x, out.low, st.assets)))

\* the body of `for ad_id, ad_assets_list in ad_assets.items()` for one ad
adjust_group(st, members, scripts, retries, now) ==
    IF Len(members) = 1
    THEN LET x == members[1]
             score == performance_score(st.assets[x])[1]
         IN  IF ScoreAbove(score, 7)
             THEN adjust_update(st, x, 12, "Single high-performing asset - budget increased by 20%",
                                "increased", scripts, retries, now)
             ELSE IF ScoreBelow(score, 3)
             THEN adjust_update(st, x, 8, "Single low-performing asset - budget decreased by 20%",
                                "decreased", scripts, retries, now)
             ELSE [st EXCEPT !.unchanged_assets =
                                Append(@, UnchangedEntry(st.assets[x],
                                   "Single asset with average performance - budget unchanged")),
                             !.total_unchanged = @ + 1]
    ELSE adjust_outliers(st, members, identify_performance_outliers(members, st.assets),
                         scripts, retries, now)

RECURSIVE adjust_groups(_, _, _, _, _, _)
adjust_groups(st, groups, g, scripts, retries, now) ==
    IF g > Len(groups) THEN st
    ELSE adjust_groups(adjust_group(st, groups[g].members, scripts, retries, now),
                       groups, g + 1, scripts, retries, now)

\* variant of SkippedEntry that takes an asset without any rate for one
\* without performance metrics
SkippedEntry_without_rates(a) ==
    IF ~TruthyStr(a.ad_id)
    THEN << [filename |-> a.filename, reason |-> "Missing ad_id", asset_id |-> a.file_id] >>
    ELSE IF IsNone(click_through_rate(a)) /\ IsNone(conversion_rate(a))
    THEN << [filename |-> a.filename, reason |-> "Missing performance metrics",
             asset_id |-> a.file_id, ad_id |-> a.ad_id] >>
    ELSE << >>

\* the filter loop: the entry appended to skipped_assets for asset a, if any
SkippedEntry(a) ==
    IF ~TruthyStr(a.ad_id)
    THEN << [filename |-> a.filename, reason |-> "Missing ad_id", asset_id |-> a.file_id] >>
    ELSE IF IsNone(performance_score(a))
    THEN << [filename |-> a.filename, reason |-> "Missing performance metrics",
             asset_id |-> a.file_id, ad_id |-> a.ad_id] >>
    ELSE << >>

RECURSIVE adjust_skipped(_, _, _)
adjust_skipped(ids, i, A) ==
    IF i > Len(ids) THEN << >>
    ELSE SkippedEntry(A[ids[i]]) \o adjust_skipped(ids, i + 1, A)

\* the summary step: what the call leaves behind and returns
adjust_summary(total_assets, skipped, valid_count, total_ads, st) ==
    [assets |-> st.assets,
     budget_changes |-> st.budget_changes,
     skipped_assets |-> skipped,
     unchanged_assets |-> st.unchanged_assets,
     updates |-> st.updates,
     summary |-> [total_assets |-> total_assets,
                  valid_assets |-> valid_count,
                  total_ads |-> total_ads,
                  budgets_increased |-> st.total_increased,
                  budgets_decreased |-> st.total_decreased,
                  budgets_unchanged |-> st.total_unchanged]]

\* adjust_budgets_by_performance(assets) on the list ids of Asset objects:
\* the objects and the three lists as they are left, the update calls made
\* and the summary returned
adjust_budgets_by_performance(ids, A, scripts, retries, now) ==
    LET skipped == adjust_skipped(ids, 1, A)
        valid_assets == SelectSeq(ids, LAMBDA x : SkippedEntry(A[x]) = << >>)
        ad_assets == group_assets_by_ad(valid_assets, 1, A, << >>)
        st0 == [assets |-> A, budget_changes |-> << >>, unchanged_assets |-> << >>,
                updates |-> << >>,
                total_increased |-> 0, total_decreased |-> 0, total_unchanged |-> 0]
    IN  adjust_summary(Len(ids), skipped, Len(valid_assets), Len(ad_assets),
                       adjust_groups(st0, ad_assets, 1, scripts, retries, now))

----------------------------------------------------------------------------
(* AssetParser and HierarchySettings: the folder path of an asset *)

\* the level of the sheet row "level_<position> | <field>"
HierarchyLevel(field, position) == [field |-> field, position |-> position]

\* HierarchyLevel.__lt__
LevelLess(l1, l2) == l1.position < l2.position

\* sorted() is stable: a level goes behind the levels that are not after it
RECURSIVE InsertLevel(_, _)
InsertLevel(sorted, level) ==
    IF sorted = << >> THEN << level >>
    ELSE IF LevelLess(level, sorted[Len(sorted)])
    THEN Append(InsertLevel(SubSeq(sorted, 1, Len(sorted) - 1), level), sorted[Len(sorted)])
    ELSE Append(sorted, level)

\* sorted(self.levels): a new list, the levels stay as they are
RECURSIVE get_sorted_levels(_)
get_sorted_levels(levels) ==
    IF levels = << >> THEN << >>
    ELSE InsertLevel(get_sorted_levels(SubSeq(levels, 1, Len(levels) - 1)), levels[Len(levels)])

\* the fields of field_mapping that are read from the asset as they are
mapped_fields ==
    { "country", "language", "buyout_code", "concept", "audience",
      "transaction_side", "asset_format", "duration" }

\* field_mapping[field_name](asset); str() of a year or a month is its
\* decimal text
field_mapping(a, field_name) ==
    IF field_name \in mapped_fields THEN a[field_name]
    ELSE IF field_name = "year"
    THEN (IF a.production_date # None THEN ToString(a.production_date[1].y) ELSE "")
    ELSE IF a.production_date # None THEN ToString(a.production_date[1].m) ELSE ""

\* variant of get_field_value that reads any other field name off the asset
get_field_value_of_any_attribute(a, field_name) ==
    IF field_name \in mapped_fields \cup {"year", "month"}
    THEN IF field_mapping(a, field_name) # "" THEN field_mapping(a, field_name) ELSE "Unset"
    ELSE IF field_name \in DOMAIN a /\ a[field_name] \in STRING /\ a[field_name] # ""
    THEN a[field_name]
    ELSE "Unset"

get_field_value(a, field_name) ==
    IF field_name \in mapped_fields \cup {"year", "month"}
    THEN IF field_mapping(a, field_name) # "" THEN field_mapping(a, field_name) ELSE "Unset"
    ELSE "Unset"

get_hierarchy_path(a, levels) ==
    [i \in 1..Len(levels) |-> get_field_value(a, get_sorted_levels(levels)[i].field)]

----------------------------------------------------------------------------
(* Asset objects *)

\* Asset(filename, ...) with the dataclass defaults for everything else
Asset(filename, country, language, buyout_code, concept, audience, transaction_side, asset_format, duration, file_format) ==
    [filename |-> filename, country |-> country, language |-> language,
     buyout_code |-> buyout_code, concept |-> concept, audience |-> audience,
     transaction_side |-> transaction_side, asset_format |-> asset_format,
     duration |-> duration, file_format |-> file_format,
     file_id |-> None, production_date |-> None,
     budget |-> 0, ad_id |-> None,
     clicks |-> None, impressions |-> None, conversions |-> None,
     is_valid_name |-> FALSE, is_buyout_valid |-> FALSE,
     quality_score |-> None, is_privacy_compliant |-> None,
     previous_budget |-> None, budget_updated_at |-> None,
     budget_update_reason |-> None]

\* the sample assets of the unit tests
valid_asset ==
    [Asset("US-EN | BUY123 | Summer | Youth | Seller | Image | 30s | jpg",
           "US", "EN", "BUY123", "Summer", "Youth", "Seller", "Image", "30s", "jpg")
     EXCEPT !.file_id = Some("file123"), !.ad_id = Some("ad123"), !.budget = 100]

invalid_asset ==
    Asset("Invalid Asset", "US", "EN", "", "Summer", "", "Seller", "Image", "30s", "jpg")

\* clicks, impressions and conversions of an asset
WithMetrics(a, impressions, clicks, conversions) ==
    [a EXCEPT !.impressions = impressions, !.clicks = clicks, !.conversions = conversions]

----------------------------------------------------------------------------
(* AssetParser: file names *)

\* A file name is kept as the sequence of its words, blanks, pipes and
\* slashes: "US-EN | BUY123" is << "US-EN", " ", "|", " ", "BUY123" >>. A word
\* holds no blank, no pipe and no slash. Every group of the pattern begins
\* behind a pipe, a blank or the start and ends before a blank, a pipe or the
\* end, so a match never cuts a word.

\* the text of a sequence of words, blanks and pipes
RECURSIVE Text(_)
Text(tokens) == IF tokens = << >> THEN "" ELSE tokens[1] \o Text(Tail(tokens))

\* the words that [A-Z]{2}-[A-Z]{2} matches, with the parts split("-") gives
country_language_words == [w \in {"US-EN", "DE-DE"} |-> IF w = "US-EN" THEN << "US", "EN" >> ELSE << "DE", "DE" >>]

\* the words that [A-Za-z0-9]+ matches
alnum_words == {"BUY123", "Summer", "Youth", "Seller", "Image", "30s", "jpg", "mp4"}

\* os.path.basename: what follows the last slash
RECURSIVE basename(_)
basename(tokens) ==
    IF \E i \in 1..Len(tokens) : tokens[i] = "/"
    THEN basename(Tail(tokens))
    ELSE tokens

\* str.strip(): without the blanks at both ends
RECURSIVE strip(_)
strip(tokens) ==
    IF tokens = << >> THEN << >>
    ELSE IF tokens[1] = " " THEN strip(Tail(tokens))
    ELSE IF tokens[Len(tokens)] = " " THEN strip(SubSeq(tokens, 1, Len(tokens) - 1))
    ELSE tokens

\* the length of the run of blanks from place i on
RECURSIVE Blanks(_, _)
Blanks(s, i) == IF i <= Len(s) /\ s[i] = " " THEN 1 + Blanks(s, i + 1) ELSE 0

\* re.match(self.pattern, s) from group k on, the groups before it being
\* spans: the spans << first, last >> of the eight groups, or None.
\* Group 2 is one alphanumeric word; groups 3 to 7 are lazy and take the
\* shortest run of any tokens that lets the rest match; group 8 runs to the
\* end; \s* is greedy and gives blanks back one at a time. Of the
\* alternatives of a backtracking step the first that succeeds is taken.
RECURSIVE match_group(_, _, _, _)
RECURSIVE match_lazy(_, _, _, _, _)
RECURSIVE match_separator(_, _, _, _)
RECURSIVE match_blanks(_, _, _, _, _)
match_group(s, k, start, spans) ==
    IF start > Len(s) THEN None
    ELSE IF k = 8 THEN Some(Append(spans, << start, Len(s) >>))
    ELSE IF k = 2
    THEN IF s[start] \in alnum_words
         THEN match_separator(s, 2, start + 1, Append(spans, << start, start >>))
         ELSE None
    ELSE match_lazy(s, k, start, start, spans)

\* (.+?) as the tokens start..end, then longer
match_lazy(s, k, start, end, spans) ==
    IF end > Len(s) THEN None
    ELSE LET shortest == match_separator(s, k, end + 1, Append(spans, << start, end >>))
         IN  IF shortest # None THEN shortest
             ELSE match_lazy(s, k, start, end + 1, spans)

\* \s*\|\s* behind group k, from place e on, then group k + 1; the pipe can
\* only follow the whole run of blanks
match_separator(s, k, e, spans) ==
    IF e + Blanks(s, e) > Len(s) THEN None
    ELSE IF s[e + Blanks(s, e)] # "|" THEN None
    ELSE match_blanks(s, k, e + Blanks(s, e) + 1, Blanks(s, e + Blanks(s, e) + 1), spans)

\* the \s* behind the pipe taking w blanks from place q on, then fewer
match_blanks(s, k, q, w, spans) ==
    IF w < 0 THEN None
    ELSE LET longest == match_group(s, k + 1, q + w, spans)
         IN  IF longest # None THEN longest
             ELSE match_blanks(s, k, q, w - 1, spans)

\* re.match(self.pattern, s): group 1 is the first word
re_match(s) ==
    IF s = << >> THEN None
    ELSE IF s[1] \notin DOMAIN country_language_words THEN None
    ELSE match_separator(s, 1, 2, << << 1, 1 >> >>)

\* the dictionary parse_filename returns for the groups of a match; its
\* texts are kept as tokens
parsed_groups(base_name, spans) ==
    [country_language |-> strip(SubSeq(base_name, spans[1][1], spans[1][2])),
     buyout_code |-> strip(SubSeq(base_name, spans[2][1], spans[2][2])),
     concept |-> strip(SubSeq(base_name, spans[3][1], spans[3][2])),
     audience |-> strip(SubSeq(base_name, spans[4][1], spans[4][2])),
     transaction_side |-> strip(SubSeq(base_name, spans[5][1], spans[5][2])),
     asset_format |-> strip(SubSeq(base_name, spans[6][1], spans[6][2])),
     duration |-> strip(SubSeq(base_name, spans[7][1], spans[7][2])),
     file_format |-> strip(SubSeq(base_name, spans[8][1], spans[8][2])),
     original_filename |-> base_name]

parse_of_match(base_name, match) ==
    IF match = None THEN None ELSE Some(parsed_groups(base_name, match[1]))

\* parse_filename(filename): the dictionary, or None
parse_filename(filename) == parse_of_match(basename(filename), re_match(basename(filename)))

\* create_asset_from_parsed_data(filename, parsed_data); country_language
\* is a word with a hyphen whenever the parse succeeded
create_asset_from_parsed_data(filename, parsed_data) ==
    [Asset(Text(filename),
           country_language_words[Text(parsed_data.country_language)][1],
           country_language_words[Text(parsed_data.country_language)][2],
           Text(parsed_data.buyout_code), Text(parsed_data.concept),
           Text(parsed_data.audience), Text(parsed_data.transaction_side),
           Text(parsed_data.asset_format), Text(parsed_data.duration),
           Text(parsed_data.file_format))
     EXCEPT !.is_valid_name = TRUE]

----------------------------------------------------------------------------
(* State *)

\* the values the handlers may change, as they are before a handler call
Snapshot ==
    [assets |-> assets, validation_results |-> validation_results,
     budget_changes |-> budget_changes, skipped_assets |-> skipped_assets,
     unchanged_assets |-> unchanged_assets, hierarchy_settings |-> hierarchy_settings]

\* `last` before any handler call; validated counts the validate_asset
\* calls made so far
NoCall ==
    [op |-> "none", asset |-> "", list |-> << >>, factor |-> 0, set_to_zero |-> FALSE,
     ret |-> FALSE, calls |-> 0, responses |-> << >>, retries |-> 0,
     script |-> << >>, trace |-> << >>, pushes |-> << >>, entry |-> << >>,
     updates |-> << >>, summary |-> << >>, validated |-> 0, before |-> << >>,
     image |-> "", analysis |-> << >>, buyout_data |-> << >>, now |-> << >>,
     filename |-> << >>, parsed_data |-> << >>,
     files |-> << >>, handled |-> << >>, uploaded |-> << >>, reports |-> << >>,
     raised |-> FALSE, answers |-> << >>]

\* AssetValidator.__init__ and BudgetManager.__init__(max_retries = retries)
\* with the Asset objects A
\* the levels of the sheet: year, country, month, audience
SheetLevels ==
    << HierarchyLevel("year", 0), HierarchyLevel("country", 1),
       HierarchyLevel("month", 2), HierarchyLevel("audience", 3) >>

Constructed(A, retries) ==
    /\ assets = A
    /\ hierarchy_settings = SheetLevels
    /\ validation_results = [valid |-> << >>, invalid |-> << >>, errors |-> << >>]
    /\ budget_changes = << >>
    /\ skipped_assets = << >>
    /\ unchanged_assets = << >>
    /\ max_retries = retries
    /\ clock = 0
    /\ last = NoCall

----------------------------------------------------------------------------
(* What the environment may answer *)

\* The environment's inputs are cut down to one for every distinct result
\* of the stage that consumes them: a handler that depends on an input only
\* through that result behaves in the same way on the others.

\* the image file at image_path: absent, present but unreadable, readable
Images == {"missing", "unreadable", "ok"}

AnalyzerScripts == [1..3 -> AnalyzerResponses]

\* the pair validate_image_quality returns
ReturnedPair(q) == << q.quality_score, q.is_privacy_compliant >>

\* an image and the analyzer's answers, one for every distinct pair returned
\* by validate_image_quality
AnalyzerCases ==
    { CHOOSE c \in Images \X AnalyzerScripts :
          ReturnedPair(validate_image_quality(c[1], c[2], 3)) = o :
      o \in { ReturnedPair(validate_image_quality(c[1], c[2], 3)) :
                c \in Images \X AnalyzerScripts } }

\* expiry texts of the buyout table: 31/12/2099, 01/02/2020, 2099-12-31,
\* 02/11/2026, text that is no date, and the empty text
ExpiryTexts ==
    { DateText("/", 31, 12, 2099), DateText("/", 1, 2, 2020),
      DateText("-", 2099, 12, 31), DateText("/", 2, 11, 2026),
      GarbageText, EmptyText }

\* buyout tables: BUY123 with each of the texts, and a table without BUY123
BuyoutTables ==
    { ("BUY123" :> t) : t \in ExpiryTexts } \cup { ("BUY456" :> DateText("/", 31, 12, 2099)) }

\* datetime.now(): 2 November 2026, at midnight sharp or later in the day
Nows == { [y |-> 2026, m |-> 11, d |-> 2, t |-> t] : t \in {0, 1} }

\* a table and a time, one pair for every distinct result of
\* validate_buyout_code on asset a
BuyoutCases(a) ==
    { CHOOSE c \in BuyoutTables \X Nows : validate_buyout_code(a, c[1], c[2]) = o :
      o \in { validate_buyout_code(a, c[1], c[2]) : c \in BuyoutTables \X Nows } }

\* the ads endpoint's answers to one push by the validator, one script for
\* every distinct (result, number of calls)
ValidatorAdsCases ==
    { CHOOSE sc \in AdsScripts(ValidatorMaxRetries) : validator_push_loop(sc, 0) = o :
      o \in { validator_push_loop(sc, 0) : sc \in AdsScripts(ValidatorMaxRetries) } }

\* the same for a push by a BudgetManager with the given max_retries
ManagerAdsCases(retries) ==
    { CHOOSE sc \in AdsScripts(retries) : manager_push_loop(sc, 0, retries) = o :
      o \in { manager_push_loop(sc, 0, retries) : sc \in AdsScripts(retries) } }

\* all tuples of n members of S
RECURSIVE Tuples(_, _)
Tuples(n, S) ==
    IF n = 0 THEN { << >> }
    ELSE { Append(t, x) : t \in Tuples(n - 1, S), x \in S }

\* all lists of distinct members of S
RECURSIVE ListsOf(_)
ListsOf(S) ==
    { << >> } \cup UNION { { << x >> \o l : l \in ListsOf(S \ {x}) } : x \in S }

----------------------------------------------------------------------------
(* The handlers as actions *)

\* variant of report_append that lists a filename at most once
report_append_distinct(results, entry) ==
    IF entry.list = "valid"
    THEN [results EXCEPT !.valid =
              IF \E i \in 1..Len(@) : @[i] = entry.filename
              THEN @ ELSE Append(@, entry.filename)]
    ELSE [results EXCEPT !.invalid =
              IF \E i \in 1..Len(@) : @[i].filename = entry.filename
              THEN @ ELSE Append(@, [filename |-> entry.filename,
                                     reasons |-> entry.reasons])]

\* validation_results after the "Report validation results" step
report_append(results, entry) ==
    IF entry.list = "valid"
    THEN [results EXCEPT !.valid = Append(@, entry.filename)]
    ELSE [results EXCEPT !.invalid =
              Append(@, [filename |-> entry.filename, reasons |-> entry.reasons])]

\* asset x read through the is_valid property
ReadIsValid(x) ==
    /\ last' = [NoCall EXCEPT !.op = "is_valid", !.asset = x,
                              !.ret = is_valid(assets[x]), !.validated = last.validated, !.before = << Snapshot >>]
    /\ clock' = clock + 1
    /\ UNCHANGED << assets, validation_results, budget_changes, skipped_assets,
                    unchanged_assets, max_retries, hierarchy_settings >>

\* the four validation fields of asset x assigned, as the unit tests do
AssignValidationFields(x, name, buyout, quality, privacy) ==
    /\ assets' = [assets EXCEPT ![x].is_valid_name = name,
                                ![x].is_buyout_valid = buyout,
                                ![x].quality_score = quality,
                                ![x].is_privacy_compliant = privacy]
    /\ last' = [NoCall EXCEPT !.op = "assign", !.asset = x, !.validated = last.validated, !.before = << Snapshot >>]
    /\ clock' = clock + 1
    /\ UNCHANGED << validation_results, budget_changes, skipped_assets,
                    unchanged_assets, max_retries, hierarchy_settings >>

\* the three metrics of asset x assigned, as the unit tests do
AssignMetrics(x, impressions, clicks, conversions) ==
    /\ assets' = [assets EXCEPT ![x].impressions = impressions,
                                ![x].clicks = clicks,
                                ![x].conversions = conversions]
    /\ last' = [NoCall EXCEPT !.op = "assign_metrics", !.asset = x, !.validated = last.validated, !.before = << Snapshot >>]
    /\ clock' = clock + 1
    /\ UNCHANGED << validation_results, budget_changes, skipped_assets,
                    unchanged_assets, max_retries, hierarchy_settings >>

\* asset x read through its three performance properties
ReadRates(x) ==
    /\ last' = [NoCall EXCEPT !.op = "read_rates", !.asset = x,
                              !.ret = [click_through_rate |-> click_through_rate(assets[x]),
                                       conversion_rate |-> conversion_rate(assets[x]),
                                       performance_score |-> performance_score(assets[x])],
                              !.validated = last.validated, !.before = << Snapshot >>]
    /\ clock' = clock + 1
    /\ UNCHANGED << assets, validation_results, budget_changes, skipped_assets,
                    unchanged_assets, max_retries, hierarchy_settings >>

\* AssetParser.get_hierarchy_path(assets[x], hierarchy_settings)
GetHierarchyPath(x) ==
    /\ last' = [NoCall EXCEPT !.op = "get_hierarchy_path", !.asset = x,
                              !.ret = get_hierarchy_path(assets[x], hierarchy_settings),
                              !.validated = last.validated, !.before = << Snapshot >>]
    /\ clock' = clock + 1
    /\ UNCHANGED << assets, validation_results, budget_changes, skipped_assets,
                    unchanged_assets, max_retries, hierarchy_settings >>

\* AssetParser.parse_filename(filename)
ParseFilename(filename) ==
    /\ last' = [NoCall EXCEPT !.op = "parse_filename", !.filename = filename,
                              !.ret = parse_filename(filename),
                              !.before = << Snapshot >>]
    /\ clock' = clock + 1
    /\ UNCHANGED << assets, validation_results, budget_changes, skipped_assets,
                    unchanged_assets, max_retries, hierarchy_settings >>

\* AssetParser.create_asset_from_parsed_data(filename, parsed_data) with the
\* dictionary the parse before it returned; the asset is kept as x
CreateAssetFromParsedData(x) ==
    /\ last.op = "parse_filename"
    /\ last.ret # None
    /\ assets' = [y \in {x} |-> create_asset_from_parsed_data(last.filename, last.ret[1])]
    /\ last' = [NoCall EXCEPT !.op = "create_asset_from_parsed_data", !.asset = x,
                              !.filename = last.filename,
                              !.parsed_data = last.ret,
                              !.before = << Snapshot >>]
    /\ clock' = clock + 1
    /\ UNCHANGED << validation_results, budget_changes, skipped_assets,
                    unchanged_assets, max_retries, hierarchy_settings >>

\* AssetValidator.validate_asset_name(assets[x])
ValidateAssetName(x) ==
    /\ last' = [NoCall EXCEPT !.op = "validate_asset_name", !.asset = x,
                              !.ret = validate_asset_name(assets[x]),
                              !.validated = last.validated, !.before = << Snapshot >>]
    /\ clock' = clock + 1
    /\ UNCHANGED << assets, validation_results, budget_changes, skipped_assets,
                    unchanged_assets, max_retries, hierarchy_settings >>

\* AssetValidator.validate_buyout_code(assets[x], buyout_data) at time now
ValidateBuyoutCode(x, buyout_data, now) ==
    /\ last' = [NoCall EXCEPT !.op = "validate_buyout_code", !.asset = x,
                              !.ret = validate_buyout_code(assets[x], buyout_data, now),
                              !.buyout_data = buyout_data, !.now = << now >>,
                              !.validated = last.validated, !.before = << Snapshot >>]
    /\ clock' = clock + 1
    /\ UNCHANGED << assets, validation_results, budget_changes, skipped_assets,
                    unchanged_assets, max_retries, hierarchy_settings >>

\* AssetValidator._get_validation_failure_reasons(assets[x])
GetValidationFailureReasons(x) ==
    /\ last' = [NoCall EXCEPT !.op = "_get_validation_failure_reasons", !.asset = x,
                              !.ret = _get_validation_failure_reasons(assets[x]),
                              !.validated = last.validated, !.before = << Snapshot >>]
    /\ clock' = clock + 1
    /\ UNCHANGED << assets, validation_results, budget_changes, skipped_assets,
                    unchanged_assets, max_retries, hierarchy_settings >>

\* AssetValidator.validate_image_quality(assets[x], image_path, max_retries)
ValidateImageQuality(x, image, analyzer_script, retries) ==
    LET q == validate_image_quality(image, analyzer_script, retries)
    IN  /\ last' = [NoCall EXCEPT !.op = "validate_image_quality", !.asset = x,
                                  !.ret = ReturnedPair(q), !.calls = q.calls,
                                  !.retries = retries,
                                  !.image = image, !.analysis = analyzer_script,
                                  !.validated = last.validated, !.before = << Snapshot >>]
        /\ clock' = clock + 1
        /\ UNCHANGED << assets, validation_results, budget_changes, skipped_assets,
                        unchanged_assets, max_retries, hierarchy_settings >>

\* AssetValidator.validate_asset(assets[x], image_path, buyout_data)
ValidateAsset(x, image, analyzer_script, buyout_data, now, ads_script) ==
    LET r == validate_asset(assets[x], image, analyzer_script, buyout_data, now, ads_script)
    IN  /\ assets' = [assets EXCEPT ![x] = r.asset]
        /\ validation_results' = report_append(validation_results, r.entry)
        /\ last' = [NoCall EXCEPT !.op = "validate_asset", !.asset = x,
                                  !.ret = r.valid, !.trace = r.trace,
                                  !.pushes = r.pushes, !.entry = << r.entry >>,
                                  !.calls = r.analyzer_calls,
                                  !.image = image, !.analysis = analyzer_script,
                                  !.validated = last.validated + 1, !.before = << Snapshot >>]
        /\ clock' = clock + 1
        /\ UNCHANGED << budget_changes, skipped_assets, unchanged_assets, max_retries, hierarchy_settings >>

\* AssetValidator.update_asset_budget(assets[x], set_to_zero)
ValidatorUpdateAssetBudget(x, set_to_zero, script) ==
    LET r == validator_update_asset_budget(assets[x], set_to_zero, script)
    IN  /\ last' = [NoCall EXCEPT !.op = "validator.update_asset_budget", !.asset = x,
                                  !.set_to_zero = set_to_zero,
                                  !.ret = r.ret, !.calls = r.calls,
                                  !.script = script,
                                  !.responses = SubSeq(script, 1, r.calls),
                                  !.retries = ValidatorMaxRetries,
                                  !.validated = last.validated, !.before = << Snapshot >>]
        /\ clock' = clock + 1
        /\ UNCHANGED << assets, validation_results, budget_changes, skipped_assets,
                        unchanged_assets, max_retries, hierarchy_settings >>

\* BudgetManager.update_asset_budget(assets[x], factor / 10, reason)
ManagerUpdateAssetBudget(x, factor, reason, script) ==
    LET r == manager_update_asset_budget(assets[x], factor, reason, script,
                                         max_retries, clock + 1)
    IN  /\ assets' = [assets EXCEPT ![x] = r.asset]
        /\ budget_changes' = budget_changes \o r.changes
        /\ last' = [NoCall EXCEPT !.op = "manager.update_asset_budget", !.asset = x,
                                  !.factor = factor,
                                  !.ret = r.ret, !.calls = r.calls,
                                  !.script = script,
                                  !.responses = SubSeq(script, 1, r.calls),
                                  !.retries = max_retries,
                                  !.validated = last.validated, !.before = << Snapshot >>]
        /\ clock' = clock + 1
        /\ UNCHANGED << validation_results, skipped_assets, unchanged_assets, max_retries, hierarchy_settings >>

\* variant of AdjustBudgetsByPerformance that adds to the three lists
\* instead of starting them anew
AdjustBudgetsByPerformance_appending(ids, scripts) ==
    LET r == adjust_budgets_by_performance(ids, assets, scripts, max_retries, clock + 1)
    IN  /\ assets' = r.assets
        /\ budget_changes' = budget_changes \o r.budget_changes
        /\ skipped_assets' = skipped_assets \o r.skipped_assets
        /\ unchanged_assets' = unchanged_assets \o r.unchanged_assets
        /\ last' = [NoCall EXCEPT !.op = "adjust_budgets_by_performance", !.list = ids,
                                  !.updates = r.updates, !.summary = << r.summary >>,
                                  !.retries = max_retries,
                                  !.validated = last.validated, !.before = << Snapshot >>]
        /\ clock' = clock + 1
        /\ UNCHANGED << validation_results, max_retries, hierarchy_settings >>

\* BudgetManager.adjust_budgets_by_performance([assets[x] for x in ids])
AdjustBudgetsByPerformance(ids, scripts) ==
    LET r == adjust_budgets_by_performance(ids, assets, scripts, max_retries, clock + 1)
    IN  /\ assets' = r.assets
        /\ budget_changes' = r.budget_changes
        /\ skipped_assets' = r.skipped_assets
        /\ unchanged_assets' = r.unchanged_assets
        /\ last' = [NoCall EXCEPT !.op = "adjust_budgets_by_performance", !.list = ids,
                                  !.updates = r.updates, !.summary = << r.summary >>,
                                  !.retries = max_retries,
                                  !.validated = last.validated, !.before = << Snapshot >>]
        /\ clock' = clock + 1
        /\ UNCHANGED << validation_results, max_retries, hierarchy_settings >>

----------------------------------------------------------------------------
(* The validator on three assets *)

\* a well-named asset that has a file but no ad
no_ad_asset ==
    [Asset("DE-DE | BUY123 | Winter | Adult | Buyer | Video | 15s | mp4",
           "DE", "DE", "BUY123", "Winter", "Adult", "Buyer", "Video", "15s", "mp4")
     EXCEPT !.file_id = Some("file456"), !.budget = 1000]

\* the invalid sample asset, in an ad, with a budget and an empty file id
unnamed_asset ==
    [invalid_asset EXCEPT !.ad_id = Some("ad123"), !.file_id = Some(""), !.budget = 1000]

ValidatorAssets ==
    [x \in {"valid_asset", "no_ad_asset", "unnamed_asset"} |->
        IF x = "valid_asset" THEN valid_asset
        ELSE IF x = "no_ad_asset" THEN no_ad_asset
        ELSE unnamed_asset]

InitValidator == Constructed(ValidatorAssets, 3)

DoValidateAsset ==
    /\ clock < MaxOps
    /\ \E x \in DOMAIN assets :
       \E ac \in AnalyzerCases :
       \E bc \in BuyoutCases(assets[x]) :
       \E sc \in ValidatorAdsCases :
           ValidateAsset(x, ac[1], ac[2], bc[1], bc[2], sc)

DoValidatorUpdate ==
    /\ clock < MaxOps
    /\ \E x \in DOMAIN assets :
       \E set_to_zero \in BOOLEAN :
       \E sc \in ValidatorAdsCases :
           ValidatorUpdateAssetBudget(x, set_to_zero, sc)

NextValidator == DoValidateAsset \/ DoValidatorUpdate

SpecValidator == InitValidator /\ [][NextValidator]_vars

----------------------------------------------------------------------------
(* The budget manager on two assets *)

\* the factors 0.8, 1.0 and 1.2, in tenths
Factors == {8, 10, 12}

\* two assets with a file each, in one ad or in two, with the given metrics
\* (impressions, clicks, conversions) and budgets
Portfolio(ad1, ad2, m1, m2, b1, b2) ==
    [x \in {"asset1", "asset2"} |->
        IF x = "asset1"
        THEN [WithMetrics(valid_asset, m1[1], m1[2], m1[3])
              EXCEPT !.filename = "asset1.jpg", !.ad_id = ad1, !.budget = b1]
        ELSE [WithMetrics(no_ad_asset, m2[1], m2[2], m2[3])
              EXCEPT !.filename = "asset2.mp4", !.ad_id = ad2, !.budget = b2]]

\* metrics of score 1, 7/10, 2/5, 3/10, 1/5 and 0
MetricsHigh == << Some(2), Some(2), Some(2) >>

MetricsSeven == << Some(2), Some(2), Some(1) >>

MetricsMid == << Some(2), Some(2), Some(0) >>

MetricsThree == << None, Some(2), Some(1) >>

MetricsLow == << Some(2), Some(1), Some(0) >>

MetricsNone == << None, None, None >>

BudgetPortfolios ==
    { Portfolio(Some("ad123"), Some("ad123"), MetricsHigh, MetricsLow, 100, 7),
      Portfolio(Some("ad123"), Some("ad123"), MetricsMid, MetricsMid, 100, 7),
      Portfolio(Some("ad123"), Some("ad456"), MetricsHigh, MetricsLow, 7, 100),
      Portfolio(Some("ad123"), None, MetricsLow, MetricsHigh, 100, 7) }

InitBudget ==
    \E A \in BudgetPortfolios : Constructed(A, 3)

DoManagerUpdate ==
    /\ clock < MaxOps
    /\ \E x \in DOMAIN assets :
       \E factor \in Factors :
       \E sc \in ManagerAdsCases(max_retries) :
           ManagerUpdateAssetBudget(x, factor, "Test", sc)

DoAdjust ==
    /\ clock < MaxOps
    /\ \E ids \in ListsOf(DOMAIN assets) :
       \E scripts \in Tuples(Len(ids), ManagerAdsCases(max_retries)) :
           AdjustBudgetsByPerformance(ids, scripts)

NextBudget == DoManagerUpdate \/ DoAdjust

SpecBudget == InitBudget /\ [][NextBudget]_vars

----------------------------------------------------------------------------
(* The two budget pushes, called once, on every answer of the endpoint *)

InitPush ==
    \E ad_id \in {None, Some(""), Some("ad123")} :
    \E file_id \in {None, Some(""), Some("file123")} :
    \E budget \in {7, 100} :
    \E retries \in 0..MaxRetriesArg :
        Constructed([x \in {"asset"} |->
                        [valid_asset EXCEPT !.ad_id = ad_id, !.file_id = file_id,
                                            !.budget = budget]],
                    retries)

PushValidator ==
    /\ clock = 0
    /\ \E set_to_zero \in BOOLEAN :
       \E sc \in AdsScripts(ValidatorMaxRetries) :
           ValidatorUpdateAssetBudget("asset", set_to_zero, sc)

PushManager ==
    /\ clock = 0
    /\ \E factor \in Factors :
       \E sc \in AdsScripts(max_retries) :
           ManagerUpdateAssetBudget("asset", factor, "Test", sc)

NextPush == PushValidator \/ PushManager

SpecPush == InitPush /\ [][NextPush]_vars

----------------------------------------------------------------------------
(* The is_valid property on every combination of the validation fields *)

QualityScores == {None, Some(4), Some(5), Some(6)}

\* enough calls for a read, an assignment and a read again
IsValidOps == MaxOps + 1

InitIsValid == Constructed([x \in {"asset"} |-> valid_asset], 3)

DoAssign ==
    /\ clock < IsValidOps
    /\ \E name \in BOOLEAN, buyout \in BOOLEAN :
       \E quality \in QualityScores :
       \E privacy \in {None, Some(TRUE), Some(FALSE)} :
           AssignValidationFields("asset", name, buyout, quality, privacy)

DoRead ==
    /\ clock < IsValidOps
    /\ ReadIsValid("asset")

NextIsValid == DoAssign \/ DoRead

SpecIsValid == InitIsValid /\ [][NextIsValid]_vars

----------------------------------------------------------------------------
(* One adjustment of an ad that holds a single asset *)

\* a metric is absent or a count up to this
MaxMetric == 2

Metric == {None} \cup { Some(n) : n \in 0..MaxMetric }

InitSingle ==
    \E impressions \in Metric, clicks \in Metric, conversions \in Metric :
    \E ad2 \in {None, Some(""), Some("ad456")} :
        Constructed(Portfolio(Some("ad123"), ad2,
                              << impressions, clicks, conversions >>, MetricsHigh, 100, 7),
                    3)

AdjustOnce ==
    /\ clock = 0
    /\ \E ids \in ListsOf(DOMAIN assets) :
       \E scripts \in Tuples(Len(ids), ManagerAdsCases(max_retries)) :
           AdjustBudgetsByPerformance(ids, scripts)

NextSingle == AdjustOnce

SpecSingle == InitSingle /\ [][NextSingle]_vars

----------------------------------------------------------------------------
(* The performance properties on every combination of the metrics *)

InitRates == Constructed([x \in {"asset"} |-> valid_asset], 3)

DoAssignMetrics ==
    /\ clock < IsValidOps
    /\ \E impressions \in Metric, clicks \in Metric, conversions \in Metric :
           AssignMetrics("asset", impressions, clicks, conversions)

DoReadRates ==
    /\ clock < IsValidOps
    /\ ReadRates("asset")

NextRates == DoAssignMetrics \/ DoReadRates

SpecRates == InitRates /\ [][NextRates]_vars

----------------------------------------------------------------------------
(* The image check on every mix of answers of the analyzer *)

InitQuality == Constructed([x \in {"asset"} |-> valid_asset], 3)

\* validate_image_quality called on its own, with max_retries given
DoValidateImageQuality ==
    /\ clock = 0
    /\ \E image \in Images :
       \E retries \in 1..MaxRetriesArg :
       \E script \in [1..retries -> AnalyzerResponses] :
           ValidateImageQuality("asset", image, script, retries)

\* validate_asset with a buyout code that is valid or expired, the zero
\* budget accepted by the ads endpoint at once
DoValidateWithImage ==
    /\ clock = 0
    /\ \E image \in Images :
       \E script \in AnalyzerScripts :
       \E bc \in BuyoutCases(assets["asset"]) :
           ValidateAsset("asset", image, script, bc[1], bc[2], << "ok", "ok", "ok" >>)

NextQuality == DoValidateImageQuality \/ DoValidateWithImage

SpecQuality == InitQuality /\ [][NextQuality]_vars

----------------------------------------------------------------------------
(* The name check on every combination of empty and filled name parts *)

\* the parts of a file name; file_format is the one the check leaves out
NameParts ==
    { "country", "language", "buyout_code", "concept", "audience",
      "transaction_side", "asset_format", "duration", "file_format" }

\* the valid sample asset with the parts in empty left empty, with or without
\* an ad and a file id
NamedAsset(empty, in_ad) ==
    [f \in DOMAIN valid_asset |->
        IF f \in empty THEN ""
        ELSE IF f \in {"ad_id", "file_id"} /\ ~in_ad THEN None
        ELSE valid_asset[f]]

InitName ==
    \E empty \in SUBSET NameParts :
    \E in_ad \in BOOLEAN :
        Constructed([x \in {"asset"} |-> NamedAsset(empty, in_ad)], 3)

DoValidateAssetName ==
    /\ clock = 0
    /\ ValidateAssetName("asset")

NextName == DoValidateAssetName

SpecName == InitName /\ [][NextName]_vars

----------------------------------------------------------------------------
(* The buyout check on expiry texts of every format *)

\* 03/04/2024, 03/12/2026, 31/12/2099, 12/31/2099, 02/11/2026, 29/02/2024,
\* 2099-12-31, 2026/11/02, 2024-04-03, and texts that no format accepts:
\* 31/02/2024, 13/13/2024, 31-12-2099, 02/11/26, text that is no date
BuyoutExpiryTexts ==
    { DateText("/", 3, 4, 2024), DateText("/", 3, 12, 2026),
      DateText("/", 31, 12, 2099), DateText("/", 12, 31, 2099),
      DateText("/", 2, 11, 2026), DateText("/", 29, 2, 2024),
      DateText("-", 2099, 12, 31), DateText("/", 2026, 11, 2),
      DateText("-", 2024, 4, 3),
      DateText("/", 31, 2, 2024), DateText("/", 13, 13, 2024),
      DateText("-", 31, 12, 2099), DateText("/", 2, 11, 26),
      GarbageText, EmptyText }

\* tables with BUY123, and one without it
BuyoutExpiryTables ==
    { ("BUY123" :> t) : t \in BuyoutExpiryTexts }
        \cup { ("BUY456" :> DateText("/", 31, 12, 2099)) }

\* datetime.now(): 20 March 2024, 3 April 2024 and 2 November 2026 at
\* midnight sharp, the latter two also later in the day
BuyoutNows ==
    { [y |-> 2024, m |-> 3, d |-> 20, t |-> 0],
      [y |-> 2024, m |-> 4, d |-> 3, t |-> 0], [y |-> 2024, m |-> 4, d |-> 3, t |-> 1],
      [y |-> 2026, m |-> 11, d |-> 2, t |-> 0], [y |-> 2026, m |-> 11, d |-> 2, t |-> 1] }

\* the valid sample asset, with its buyout code, with a code that no table
\* holds, or without code
InitBuyout ==
    \E code \in {"BUY123", "BUY999", ""} :
        Constructed([x \in {"asset"} |-> [valid_asset EXCEPT !.buyout_code = code]], 3)

DoValidateBuyoutCode ==
    /\ clock = 0
    /\ \E buyout_data \in BuyoutExpiryTables :
       \E now \in BuyoutNows :
           ValidateBuyoutCode("asset", buyout_data, now)

NextBuyout == DoValidateBuyoutCode

SpecBuyout == InitBuyout /\ [][NextBuyout]_vars

----------------------------------------------------------------------------
(* The failure reasons on every combination of the validation fields *)

\* a sample asset with any name, buyout, quality and privacy result on it
InitReasons ==
    \E a \in {valid_asset, unnamed_asset} :
    \E name \in BOOLEAN, buyout \in BOOLEAN :
    \E quality \in QualityScores :
    \E privacy \in {None, Some(TRUE), Some(FALSE)} :
        Constructed([x \in {"asset"} |->
                        [a EXCEPT !.is_valid_name = name, !.is_buyout_valid = buyout,
                                  !.quality_score = quality,
                                  !.is_privacy_compliant = privacy]], 3)

DoGetReasons ==
    /\ clock = 0
    /\ GetValidationFailureReasons("asset")

\* validate_asset, the zero budget accepted by the ads endpoint at once
DoValidateForReasons ==
    /\ clock = 0
    /\ \E ac \in AnalyzerCases :
       \E bc \in BuyoutCases(assets["asset"]) :
           ValidateAsset("asset", ac[1], ac[2], bc[1], bc[2], << "ok", "ok", "ok" >>)

NextReasons == DoGetReasons \/ DoValidateForReasons

SpecReasons == InitReasons /\ [][NextReasons]_vars

----------------------------------------------------------------------------
(* The folder path on hierarchies of a few levels *)

\* the settings hold at most this many levels
MaxLevels == 3

\* fields the path is built from: two that come from the production date,
\* one name part, an attribute of the asset that is no hierarchy field and a
\* name that is nothing at all
PathFields == { "year", "month", "country", "file_format", "campaign" }

\* every field name the parser knows, and the two others
AllFields == mapped_fields \cup {"year", "month"} \cup PathFields

\* the levels of a sheet: up to MaxLevels rows on two positions, or a single
\* row with any field
LevelLists ==
    UNION { [1..n -> { HierarchyLevel(f, p) : f \in PathFields, p \in {0, 1} }] :
              n \in 0..MaxLevels }
        \cup { << HierarchyLevel(f, 0) >> : f \in AllFields }

\* the valid sample asset or one with all name parts empty, produced on
\* 5 March 2024 or without production date
PathAssets ==
    { [NamedAsset(empty, TRUE) EXCEPT !.production_date = date] :
        empty \in { {}, NameParts },
        date \in { None, Some([y |-> 2024, m |-> 3, d |-> 5, t |-> 0]) } }

InitHierarchy ==
    \E a \in PathAssets :
    \E levels \in LevelLists :
        /\ assets = [x \in {"asset"} |-> a]
        /\ hierarchy_settings = levels
        /\ validation_results = [valid |-> << >>, invalid |-> << >>, errors |-> << >>]
        /\ budget_changes = << >>
        /\ skipped_assets = << >>
        /\ unchanged_assets = << >>
        /\ max_retries = 3
        /\ clock = 0
        /\ last = NoCall

DoGetHierarchyPath ==
    /\ clock = 0
    /\ GetHierarchyPath("asset")

NextHierarchy == DoGetHierarchyPath

SpecHierarchy == InitHierarchy /\ [][NextHierarchy]_vars

----------------------------------------------------------------------------
(* One adjustment of an ad that holds up to four assets *)

\* four assets of ad123 with the given metrics; with twin, asset2 is built
\* from the same file name and the same sheet row as asset1 and so is equal
\* to it field by field
Group(m, twin) ==
    [x \in {"asset1", "asset2", "asset3", "asset4"} |->
        LET i == IF x = "asset1" THEN 1 ELSE IF x = "asset2" THEN 2
                 ELSE IF x = "asset3" THEN 3 ELSE 4
            j == IF twin /\ i = 2 THEN 1 ELSE i
        IN  [WithMetrics(valid_asset, m[j][1], m[j][2], m[j][3])
             EXCEPT !.filename = IF j = 1 THEN "asset1.jpg" ELSE IF j = 2 THEN "asset2.jpg"
                                 ELSE IF j = 3 THEN "asset3.jpg" ELSE "asset4.jpg",
                    !.budget = 100 * j]]

InitGroup ==
    \E m1 \in {MetricsHigh, MetricsMid, MetricsLow} :
    \E m2 \in {MetricsHigh, MetricsMid, MetricsLow} :
    \E m3 \in {MetricsHigh, MetricsMid, MetricsLow} :
    \E twin \in BOOLEAN :
        Constructed(Group(<< m1, m2, m3, MetricsMid >>, twin), 3)

\* the endpoint accepts an update at once or answers every attempt with an
\* error
GroupAdsCases == { << "ok", "ok", "ok" >>, << "error", "error", "error" >> }

\* answers to n updates, of which only the first two may fail
GroupScripts(n) ==
    { sc \in Tuples(n, GroupAdsCases) : \A i \in 3..n : sc[i] = << "ok", "ok", "ok" >> }

AdjustGroup ==
    /\ clock = 0
    /\ \E ids \in ListsOf(DOMAIN assets) :
       \E scripts \in GroupScripts(Len(ids)) :
           AdjustBudgetsByPerformance(ids, scripts)

NextGroup == AdjustGroup

SpecGroup == InitGroup /\ [][NextGroup]_vars

----------------------------------------------------------------------------
(* The parser alone: one file name parsed, built into an asset, validated *)

\* the cells of "US-EN | BUY123 | Summer | Youth | Seller | Image | 30s | jpg"
\* and the cell of one name too many
ParseWords == << "US-EN", "BUY123", "Summer", "Youth", "Seller", "Image", "30s", "jpg", "mp4" >>

\* a word that neither [A-Z]{2}-[A-Z]{2} nor [A-Za-z0-9]+ matches
OddWord == "BUY-1"

CellKinds == {"word", "two", "empty", "odd"}

\* cell k, the cell at place varied being of the kind given
Cell(k, varied, kind) ==
    IF k # varied \/ kind = "word" THEN << ParseWords[k] >>
    ELSE IF kind = "two" THEN << ParseWords[k], " ", ParseWords[k] >>
    ELSE IF kind = "odd" THEN << OddWord >>
    ELSE << >>

\* the cells k..n joined by pipes, tight or with a blank on both sides
RECURSIVE JoinCells(_, _, _, _, _)
JoinCells(k, n, varied, kind, tight) ==
    IF k = n THEN Cell(k, varied, kind)
    ELSE Cell(k, varied, kind) \o (IF tight THEN << "|" >> ELSE << " ", "|", " " >>)
         \o JoinCells(k + 1, n, varied, kind, tight)

\* the file names parsed: seven, eight or nine cells, one of them varied,
\* in a folder or not
Filenames ==
    { (IF in_folder THEN << "assets", "/" >> ELSE << >>) \o JoinCells(1, n, varied, kind, tight) :
        n \in 7..9, varied \in 1..8, kind \in CellKinds, tight \in BOOLEAN, in_folder \in BOOLEAN }

InitParse == Constructed(<< >>, 3)

DoParseFilename ==
    /\ clock = 0
    /\ \E filename \in Filenames : ParseFilename(filename)

DoCreateAssetFromParsedData == CreateAssetFromParsedData("asset")

DoValidateParsedName ==
    /\ last.op = "create_asset_from_parsed_data"
    /\ ValidateAssetName("asset")

NextParse == DoParseFilename \/ DoCreateAssetFromParsedData \/ DoValidateParsedName

SpecParse == InitParse /\ [][NextParse]_vars

----------------------------------------------------------------------------
(* AssetReorganizer.run: the files of the source folder, one after another *)

\* the loop passes over the files of index 0 to 9 and leaves at index 20
RunFirstIndex == 10

RunBreakIndex == 20

\* source_files.index(file): the first place, counted from 0, of an equal file
RECURSIVE list_index(_, _, _)
list_index(source_files, file, i) ==
    IF source_files[i] = file THEN i - 1 ELSE list_index(source_files, file, i + 1)

\* create_asset_from_sheet_data(filename, parsed_data, sheet_data): row is
\* what the sheets hold for the file, the asset id, the ad and its metrics
create_asset_from_sheet_data(filename, parsed_data, row) ==
    [Asset(Text(filename),
           country_language_words[Text(parsed_data.country_language)][1],
           country_language_words[Text(parsed_data.country_language)][2],
           Text(parsed_data.buyout_code), Text(parsed_data.concept),
           Text(parsed_data.audience), Text(parsed_data.transaction_side),
           Text(parsed_data.asset_format), Text(parsed_data.duration),
           Text(parsed_data.file_format))
     EXCEPT !.file_id = row.asset_id, !.budget = row.budget, !.ad_id = row.ad_id,
            !.clicks = row.clicks, !.impressions = row.impressions,
            !.conversions = row.conversions]

\* the loop's state: the assets processed, their keys in order, the
\* validator's lists, the files the loop began to handle, the uploads, and
\* whether an exception left the loop
RunStart(results) ==
    [assets |-> << >>, processed |-> << >>, results |-> results,
     handled |-> << >>, uploaded |-> << >>, raised |-> FALSE]

\* from "Track processed asset" to the upload, r being what validate_asset did
run_track(answer, key, st, r, levels) ==
    IF ~is_valid(r.asset)
    THEN [st EXCEPT !.assets = (key :> r.asset) @@ @,
                    !.processed = Append(@, key),
                    !.results = report_append(@, r.entry)]
    ELSE IF answer.fault = "upload"
    THEN [st EXCEPT !.assets = (key :> r.asset) @@ @,
                    !.processed = Append(@, key),
                    !.results = report_append(@, r.entry),
                    !.raised = TRUE]
    ELSE [st EXCEPT !.assets = (key :> r.asset) @@ @,
                    !.processed = Append(@, key),
                    !.results = report_append(@, r.entry),
                    !.uploaded = Append(@, << key, get_hierarchy_path(r.asset, levels) >>)]

\* from the parse to the validation; an exception of the sheet lookup, the
\* download or the transcoding is caught nowhere in run
run_parsed(file, answer, key, st, parsed_data, buyout_data, now, levels) ==
    IF parsed_data = None THEN st
    ELSE IF answer.fault \in {"sheet", "download", "process_image"}
    THEN [st EXCEPT !.raised = TRUE]
    ELSE run_track(answer, key, st,
                   validate_asset(create_asset_from_sheet_data(file.name, parsed_data[1], answer.row),
                                  answer.analysis[1], answer.analysis[2],
                                  buyout_data, now, answer.ads_script),
                   levels)

\* the body of the loop for one file of the range
run_file(file, answer, key, st, buyout_data, now, levels) ==
    IF ~TruthyStr(file.id) \/ file.name = << >> THEN st
    ELSE run_parsed(file, answer, key, [st EXCEPT !.handled = Append(@, key)],
                    parse_filename(file.name), buyout_data, now, levels)

\* for file in source_files, from the file at place i on
RECURSIVE run_loop(_, _, _, _, _, _, _)
run_loop(source_files, answers, i, st, buyout_data, now, levels) ==
    IF i > Len(source_files) \/ st.raised THEN st
    ELSE IF list_index(source_files, source_files[i], 1) < RunFirstIndex
    THEN run_loop(source_files, answers, i + 1, st, buyout_data, now, levels)
    ELSE IF list_index(source_files, source_files[i], 1) = RunBreakIndex THEN st
    ELSE run_loop(source_files, answers, i + 1,
                  run_file(source_files[i], answers[i], i, st, buyout_data, now, levels),
                  buyout_data, now, levels)

\* what run leaves when the loop is left by an exception: main logs it and
\* returns 1
run_raised(st, changes, skipped, unchanged) ==
    [ret |-> 1, assets |-> st.assets, validation_results |-> st.results,
     budget_changes |-> changes, skipped_assets |-> skipped,
     unchanged_assets |-> unchanged, reports |-> << >>, st |-> st]

\* what run leaves with the validation report alone
run_validation_report(st, changes, skipped, unchanged) ==
    [ret |-> 0, assets |-> st.assets, validation_results |-> st.results,
     budget_changes |-> changes, skipped_assets |-> skipped,
     unchanged_assets |-> unchanged,
     reports |-> IF st.processed # << >> THEN << "validation_report" >> ELSE << >>,
     st |-> st]

\* _update_budgets_by_performance with valid assets: adj is what
\* adjust_budgets_by_performance did
run_budget_report(st, adj) ==
    [ret |-> 0, assets |-> adj.assets, validation_results |-> st.results,
     budget_changes |-> adj.budget_changes, skipped_assets |-> adj.skipped_assets,
     unchanged_assets |-> adj.unchanged_assets,
     reports |-> << "validation_report", "budget_report" >>, st |-> st]

\* the end of run behind the loop
run_reports(st, valid_assets, scripts, retries, now, changes, skipped, unchanged) ==
    IF st.raised THEN run_raised(st, changes, skipped, unchanged)
    ELSE IF valid_assets = << >> THEN run_validation_report(st, changes, skipped, unchanged)
    ELSE run_budget_report(st, adjust_budgets_by_performance(valid_assets, st.assets,
                                   [i \in 1..Len(valid_assets) |-> scripts], retries, now))

run_valid_assets(st) == SelectSeq(st.processed, LAMBDA x : is_valid(st.assets[x]))

run_looped(st, scripts, retries, now, changes, skipped, unchanged) ==
    run_reports(st, run_valid_assets(st), scripts, retries, now, changes, skipped, unchanged)

\* the state run was given with what run made of it
RunDone(source_files, answers, r) ==
    /\ assets' = r.assets
    /\ validation_results' = r.validation_results
    /\ budget_changes' = r.budget_changes
    /\ skipped_assets' = r.skipped_assets
    /\ unchanged_assets' = r.unchanged_assets
    /\ last' = [NoCall EXCEPT !.op = "run", !.ret = r.ret, !.files = source_files,
                              !.answers = answers,
                              !.list = r.st.processed, !.handled = r.st.handled,
                              !.uploaded = r.st.uploaded, !.reports = r.reports,
                              !.raised = r.st.raised,
                              !.before = << Snapshot >>]
    /\ clock' = clock + 1
    /\ UNCHANGED << max_retries, hierarchy_settings >>

\* main(): AssetReorganizer(...).run() with both API keys given
Run(source_files, answers, buyout_data, now, scripts) ==
    /\ hierarchy_settings # << >>
    /\ RunDone(source_files, answers,
               run_looped(run_loop(source_files, answers, 1, RunStart(validation_results),
                                   buyout_data, now, hierarchy_settings),
                          scripts, max_retries, clock + 1,
                          budget_changes, skipped_assets, unchanged_assets))

\* a file of index below 10
OldFile == [id |-> Some("old"), name |-> JoinCells(1, 8, 1, "word", FALSE)]

\* the file names of the run: one that parses and one that does not
RunNames == { JoinCells(1, 8, 1, "word", FALSE), JoinCells(1, 8, 1, "odd", FALSE) }

\* the external call that raises while a file is handled, if any
RunFaults == {"none", "sheet", "download", "process_image", "upload"}

\* the analyzer's answers: quality 6 with privacy kept, or with privacy broken
RunAnalyses ==
    { << "ok", [i \in 1..3 |-> [kind |-> "json", quality |-> Some(6), privacy |-> Some(p)]] >> :
        p \in BOOLEAN }

\* what the sheets hold for a file
RunRow ==
    [asset_id |-> Some("file123"), ad_id |-> Some("ad123"), budget |-> 1000,
     clicks |-> Some(1), impressions |-> Some(2), conversions |-> Some(1)]

RunAnswers ==
    { [fault |-> f, analysis |-> a, row |-> RunRow, ads_script |-> [i \in 1..3 |-> "ok"]] :
        f \in RunFaults, a \in RunAnalyses }

PlainAnswer == CHOOSE a \in RunAnswers : a.fault = "none" /\ a.analysis[2][1].privacy = Some(TRUE)

\* nine more files behind the two, the last of them at index 20
MoreFiles == [i \in 1..9 |-> [id |-> Some("more" \o ToString(i)), name |-> JoinCells(1, 8, 1, "word", FALSE)]]

RunBuyoutData == ("BUY123" :> DateText("/", 31, 12, 2099))

RunNow == [y |-> 2026, m |-> 11, d |-> 2, t |-> 1]

InitRun == Constructed(<< >>, 3)

DoRun ==
    /\ clock = 0
    /\ \E n1 \in RunNames, n2 \in RunNames :
       \E a1 \in RunAnswers, a2 \in RunAnswers :
       \E more \in BOOLEAN :
       \E script \in { [i \in 1..3 |-> "ok"], [i \in 1..3 |-> "error"] } :
           Run([i \in 1..10 |-> OldFile]
                   \o << [id |-> Some("file1"), name |-> n1], [id |-> Some("file2"), name |-> n2] >>
                   \o (IF more THEN MoreFiles ELSE << >>),
               [i \in 1..10 |-> PlainAnswer] \o << a1, a2 >>
                   \o (IF more THEN [i \in 1..9 |-> PlainAnswer] ELSE << >>),
               RunBuyoutData, RunNow, script)

NextRun == DoRun

SpecRun == InitRun /\ [][NextRun]_vars

----------------------------------------------------------------------------
(* The whole engine: validator and budget manager on the same assets *)

Init == Constructed(Portfolio(Some("ad123"), Some("ad123"), MetricsHigh, MetricsLow, 100, 7), 3)

Next == DoValidateAsset \/ DoValidatorUpdate \/ DoManagerUpdate \/ DoAdjust

Spec == Init /\ [][Next]_vars

----------------------------------------------------------------------------
(* The run's pipeline on the same two assets: validation, then budgets *)

\* the endpoint accepts every update at once or answers every attempt with
\* an error
PipelineAdsScripts == { [i \in 1..3 |-> "ok"], [i \in 1..3 |-> "error"] }

PipelineValidate ==
    /\ clock < MaxOps
    /\ \E x \in DOMAIN assets :
       \E ac \in RunAnalyses :
       \E bc \in BuyoutCases(assets[x]) :
       \E sc \in PipelineAdsScripts :
           ValidateAsset(x, ac[1], ac[2], bc[1], bc[2], sc)

PipelineUpdate ==
    /\ clock < MaxOps
    /\ \E x \in DOMAIN assets :
       \E factor \in Factors :
       \E sc \in PipelineAdsScripts :
           ManagerUpdateAssetBudget(x, factor, "Test", sc)

PipelineAdjust ==
    /\ clock < MaxOps
    /\ \E ids \in ListsOf(DOMAIN assets) :
       \E sc \in PipelineAdsScripts :
           AdjustBudgetsByPerformance(ids, [i \in 1..Len(ids) |-> sc])

NextPipeline == PipelineValidate \/ PipelineUpdate \/ PipelineAdjust

SpecPipeline == Init /\ [][NextPipeline]_vars

----------------------------------------------------------------------------
(* Properties *)

\* the state as it was before the handler call that `last` describes
Before == last.before[1]

\* C1: every read of is_valid gives is_valid_name AND (is_buyout_valid OR
\* quality_score non-null and strictly above 5) AND is_privacy_compliant
\* non-null and true, evaluated on the field values held at the time of the
\* read
C1_IsValidIsTheExpression ==
    last.op = "is_valid" =>
        LET a == assets[last.asset]
        IN  last.ret = (/\ a.is_valid_name = TRUE
                        /\ \/ a.is_buyout_valid = TRUE
                           \/ (a.quality_score # None /\ a.quality_score[1] > 5)
                        /\ a.is_privacy_compliant = Some(TRUE))

\* a named, privacy-compliant asset of quality 5 with a failed buyout, read
\* as invalid after the fields were assigned
C1_QualityFiveRead ==
    /\ last.op = "is_valid"
    /\ clock >= 2
    /\ ~last.ret
    /\ assets[last.asset].is_valid_name
    /\ ~assets[last.asset].is_buyout_valid
    /\ assets[last.asset].quality_score = Some(5)
    /\ assets[last.asset].is_privacy_compliant = Some(TRUE)

\* C2: when validate_asset returns with is_buyout_valid false the asset's
\* budget is 0, whatever the zero-budget push did
C2_FailedBuyoutZeroesBudget ==
    (last.op = "validate_asset" /\ ~assets[last.asset].is_buyout_valid)
        => assets[last.asset].budget = 0

\* a funded asset whose buyout failed and whose push failed on all attempts
C2_PushExhausted ==
    /\ last.op = "validate_asset"
    /\ ~assets[last.asset].is_buyout_valid
    /\ Before.assets[last.asset].budget > 0
    /\ Len(last.pushes) = 1
    /\ ~last.pushes[1].ret
    /\ last.pushes[1].calls = ValidatorMaxRetries

\* C3: validate_asset runs the name, buyout and image stages on every call;
\* then, if the buyout failed, it invokes the zero-budget push once before
\* the report step, and otherwise it makes no push and leaves the budget
C3_StagesThenPushIffBuyoutFailed ==
    last.op = "validate_asset" =>
        LET stages == << "validate_asset_name", "validate_buyout_code",
                         "validate_image_quality" >>
        IN  IF ~assets[last.asset].is_buyout_valid
            THEN /\ last.trace = stages \o << "update_asset_budget", "report" >>
                 /\ Len(last.pushes) = 1
            ELSE /\ last.trace = stages \o << "report" >>
                 /\ last.pushes = << >>
                 /\ assets[last.asset].budget = Before.assets[last.asset].budget

\* name and buyout both failed, the analyzer was still asked and its score
\* stored, and one push was invoked
C3_AnalyzerAfterFailures ==
    /\ last.op = "validate_asset"
    /\ ~assets[last.asset].is_valid_name
    /\ ~assets[last.asset].is_buyout_valid
    /\ last.calls >= 1
    /\ assets[last.asset].quality_score = Some(6)
    /\ Len(last.pushes) = 1

\* C4: each validate_asset call appends exactly one entry, the filename to
\* the valid list if the asset is valid after the stages and a
\* {filename, reasons} entry to the invalid list otherwise; no other call
\* touches the lists; so after n calls the report's total_assets is n and is
\* valid_assets + invalid_assets
C4_OneEntryPerValidation ==
    /\ last.op = "validate_asset" =>
           LET a == assets[last.asset]
               b == Before.validation_results
           IN  /\ validation_results.errors = b.errors
               /\ IF is_valid(a)
                  THEN /\ validation_results.valid = b.valid \o << a.filename >>
                       /\ validation_results.invalid = b.invalid
                  ELSE /\ validation_results.valid = b.valid
                       /\ validation_results.invalid =
                              b.invalid \o << [filename |-> a.filename,
                                               reasons |-> _get_validation_failure_reasons(a)] >>
    /\ last.op \notin {"none", "validate_asset"} =>
           validation_results = Before.validation_results
    /\ get_validation_report(validation_results).total_assets = last.validated
    /\ get_validation_report(validation_results).total_assets =
           get_validation_report(validation_results).valid_assets
           + get_validation_report(validation_results).invalid_assets

\* a second validation, after which both lists hold one entry
C4_TwoValidations ==
    /\ last.op = "validate_asset"
    /\ last.validated = 2
    /\ Len(validation_results.valid) = 1
    /\ Len(validation_results.invalid) = 1

\* C5: a BudgetManager.update_asset_budget call that got a non-error answer
\* returns true, sets previous_budget to the old budget, budget to the
\* integer part of old budget * factor, stores the reason and appends one
\* change record with those values and the factor; with factor 1.0 the
\* budget stays and the record is still appended
C5_ConfirmedUpdateIsRecorded ==
    (/\ last.op = "manager.update_asset_budget"
     /\ last.responses # << >>
     /\ last.responses[Len(last.responses)] = "ok")
    => LET old == Before.assets[last.asset]
           a == assets[last.asset]
           product == old.budget * last.factor
           whole == CHOOSE n \in 0..product : 10 * n <= product /\ product < 10 * (n + 1)
           n == Len(Before.budget_changes)
       IN  /\ last.ret
           /\ a.previous_budget = Some(old.budget)
           /\ a.budget = whole
           /\ a.budget_update_reason = Some("Test")
           /\ Len(budget_changes) = n + 1
           /\ SubSeq(budget_changes, 1, n) = Before.budget_changes
           /\ budget_changes[n + 1].filename = old.filename
           /\ budget_changes[n + 1].previous_budget = Some(old.budget)
           /\ budget_changes[n + 1].new_budget = whole
           /\ budget_changes[n + 1].adjustment_factor = last.factor
           /\ budget_changes[n + 1].reason = "Test"
           /\ (last.factor = 10 => a.budget = old.budget)

\* a confirmed update by factor 1.0, recorded after an earlier change
C5_FactorOneRecorded ==
    /\ last.op = "manager.update_asset_budget"
    /\ last.ret
    /\ last.factor = 10
    /\ Len(Before.budget_changes) >= 1
    /\ Len(budget_changes) = Len(Before.budget_changes) + 1
    /\ assets[last.asset].budget = Before.assets[last.asset].budget

\* C6: when every one of the max_retries attempts is answered with an error,
\* BudgetManager.update_asset_budget returns false and the assets and
\* budget_changes are as before
C6_ExhaustedRetriesChangeNothing ==
    (/\ last.op = "manager.update_asset_budget"
     /\ Len(last.responses) = last.retries
     /\ \A i \in 1..Len(last.responses) : last.responses[i] = "error")
    => /\ ~last.ret
       /\ assets = Before.assets
       /\ budget_changes = Before.budget_changes

\* three attempts, three errors
C6_ThreeErrors ==
    /\ last.op = "manager.update_asset_budget"
    /\ last.retries = 3
    /\ last.responses = << "error", "error", "error" >>
    /\ ~last.ret

\* C7: adjust_budgets_by_performance changes an asset and appends a change
\* record only for a confirmed update; budgets_increased + budgets_decreased
\* is the number of change records; an asset whose update failed keeps its
\* budget
C7_OnlyConfirmedUpdatesCount ==
    last.op = "adjust_budgets_by_performance" =>
        LET U == last.updates
            confirmed == { k \in 1..Len(U) : U[k].ret }
        IN  /\ \A x \in DOMAIN assets :
                   assets[x] # Before.assets[x] => \E k \in confirmed : U[k].asset = x
            /\ Len(budget_changes) = Cardinality(confirmed)
            /\ \A j \in 1..Len(budget_changes) :
                   \E k \in confirmed :
                       assets[U[k].asset].filename = budget_changes[j].filename
            /\ last.summary[1].budgets_increased + last.summary[1].budgets_decreased
                   = Len(budget_changes)
            /\ \A k \in 1..Len(U) :
                   ~U[k].ret =>
                       assets[U[k].asset].budget = Before.assets[U[k].asset].budget

\* one adjustment in which one update was confirmed and another failed
C7_OneConfirmedOneFailed ==
    /\ last.op = "adjust_budgets_by_performance"
    /\ \E k1, k2 \in 1..Len(last.updates) :
           last.updates[k1].ret /\ ~last.updates[k2].ret

\* C8: with an empty or missing ad_id or file_id, update_asset_budget of the
\* BudgetManager and of the AssetValidator returns false, makes no call and
\* changes neither the asset nor any list
C8_MissingIdsFailWithoutCall ==
    last.op \in {"manager.update_asset_budget", "validator.update_asset_budget"} =>
        LET a == Before.assets[last.asset]
        IN  (\/ a.ad_id = None \/ a.ad_id = Some("")
             \/ a.file_id = None \/ a.file_id = Some(""))
            => /\ ~last.ret
               /\ last.calls = 0
               /\ Snapshot = Before

\* the validator's push for an asset in an ad but with an empty file id,
\* while the endpoint would have accepted the first call
C8_EmptyFileId ==
    /\ last.op = "validator.update_asset_budget"
    /\ Before.assets[last.asset].ad_id = Some("ad123")
    /\ Before.assets[last.asset].file_id = Some("")
    /\ last.script[1] = "ok"
    /\ ~last.ret

\* C9: with both ids present, each push makes at most its maximum number of
\* calls; if some attempt within the maximum gets an answer without error, it
\* returns true and has made exactly as many calls as the index of the first
\* such attempt; otherwise it returns false
C9_CallsUpToFirstSuccess ==
    (/\ last.op \in {"manager.update_asset_budget", "validator.update_asset_budget"}
     /\ TruthyStr(Before.assets[last.asset].ad_id)
     /\ TruthyStr(Before.assets[last.asset].file_id))
    => LET successes == { i \in 1..last.retries : last.script[i] = "ok" }
       IN  /\ last.calls <= last.retries
           /\ successes # {} =>
                  /\ last.ret
                  /\ last.calls \in successes
                  /\ \A i \in successes : last.calls <= i
           /\ successes = {} => ~last.ret

\* error, error, success: three calls and true
C9_ThirdAttemptSucceeds ==
    /\ last.op = "manager.update_asset_budget"
    /\ last.retries = 3
    /\ last.script = << "error", "error", "ok" >>
    /\ last.calls = 3
    /\ last.ret

\* C10: for an asset alone in its ad, adjust_budgets_by_performance requests
\* factor 1.2 iff the score is above 0.7 and factor 0.8 iff it is below 0.3;
\* otherwise, 0.3 and 0.7 included, it makes no update call, leaves the asset
\* and records it once, with the single-asset reason
C10_SingleAssetThresholds ==
    last.op = "adjust_budgets_by_performance" =>
        \A x \in DOMAIN assets :
            LET a == Before.assets[x]
                listed(y) == \E i \in 1..Len(last.list) : last.list[i] = y
                s == performance_score(a)[1]
                requests(f) == { k \in 1..Len(last.updates) :
                                   last.updates[k].asset = x /\ last.updates[k].factor = f }
                entries == { i \in 1..Len(unchanged_assets) :
                               unchanged_assets[i].filename = a.filename }
            IN  (/\ listed(x)
                 /\ TruthyStr(a.ad_id)
                 /\ \A y \in DOMAIN assets \ {x} :
                        ~(listed(y) /\ Before.assets[y].ad_id = a.ad_id))
                => /\ (requests(12) # {}) = (10 * s[1] > 7 * s[2])
                   /\ (requests(8) # {}) = (10 * s[1] < 3 * s[2])
                   /\ Cardinality(requests(12) \cup requests(8)) <= 1
                   /\ requests(10) = {}
                   /\ (10 * s[1] <= 7 * s[2] /\ 10 * s[1] >= 3 * s[2]) =>
                          /\ assets[x] = a
                          /\ Cardinality(entries) = 1
                          /\ \A i \in entries :
                                 /\ unchanged_assets[i].reason =
                                        "Single asset with average performance - budget unchanged"
                                 /\ unchanged_assets[i].budget = a.budget

\* an asset alone in its ad with a score of exactly 0.7, recorded unchanged
C10_ExactlySevenTenths ==
    /\ last.op = "adjust_budgets_by_performance"
    /\ \E x \in DOMAIN assets :
           /\ \E i \in 1..Len(last.list) : last.list[i] = x
           /\ 10 * performance_score(Before.assets[x])[1][1]
                  = 7 * performance_score(Before.assets[x])[1][2]
           /\ performance_score(Before.assets[x])[1][1] > 0
           /\ \E i \in 1..Len(unchanged_assets) :
                  unchanged_assets[i].filename = assets[x].filename
           /\ assets[x].budget = Before.assets[x].budget

\* the assets of the adjusted list that have an ad_id, which are the eligible
\* ones
Eligible ==
    { x \in DOMAIN assets :
        /\ \E i \in 1..Len(last.list) : last.list[i] = x
        /\ TruthyStr(Before.assets[x].ad_id) }

\* the eligible assets of the ad that x is in
AdGroup(x) == { y \in Eligible : Before.assets[y].ad_id = Before.assets[x].ad_id }

\* the eligible assets for which an update by factor f (in tenths) was requested
Requested(f) ==
    { x \in Eligible :
        \E k \in 1..Len(last.updates) :
            last.updates[k].asset = x /\ last.updates[k].factor = f }

\* C11: in an ad of n >= 2 eligible assets, max(1, n div 4) assets get factor
\* 1.2 and score at least as high as every other asset of the ad,
\* max(1, n div 4) assets get factor 0.8 and score at most as high as every
\* other one, each with one update call, and the n - 2 * max(1, n div 4)
\* others get no update call and one unchanged entry each
C11_QuartilesOfAnAd ==
    last.op = "adjust_budgets_by_performance" =>
        \A x \in Eligible :
            LET G == AdGroup(x)
                n == Cardinality(G)
                quarter == IF n \div 4 >= 1 THEN n \div 4 ELSE 1
                top == G \cap Requested(12)
                low == G \cap Requested(8)
                others == G \ (top \cup low)
                score(y) == performance_score(Before.assets[y])[1]
                calls == { k \in 1..Len(last.updates) : last.updates[k].asset \in G }
                entries == { i \in 1..Len(unchanged_assets) :
                               /\ unchanged_assets[i].ad_id = Before.assets[x].ad_id
                               /\ unchanged_assets[i].reason =
                                      "Average performer - budget unchanged" }
            IN  n >= 2 =>
                    /\ Cardinality(top) = quarter
                    /\ Cardinality(low) = quarter
                    /\ Cardinality(calls) = 2 * quarter
                    /\ \A t \in top : \A y \in G \ top :
                           score(t)[1] * score(y)[2] >= score(y)[1] * score(t)[2]
                    /\ \A l \in low : \A y \in G \ low :
                           score(l)[1] * score(y)[2] <= score(y)[1] * score(l)[2]
                    /\ Cardinality(others) = n - 2 * quarter
                    /\ Cardinality(entries) = n - 2 * quarter
                    /\ \A y \in others :
                           /\ assets[y] = Before.assets[y]
                           /\ \E i \in entries :
                                  unchanged_assets[i].filename = Before.assets[y].filename

FirstPayload(script, n) ==
    IF \E i \in 1..n : script[i].kind = "json"
    THEN CHOOSE i \in 1..n :
             /\ script[i].kind = "json"
             /\ \A j \in 1..(i - 1) : script[j].kind # "json"
    ELSE 0

\* the pair a payload stands for: its quality, and its privacy or false
PayloadPair(r) == << r.quality, IF r.privacy = None THEN Some(FALSE) ELSE r.privacy >>

\* C14: validate_image_quality calls the analyzer zero times when the file is
\* missing and at most max_retries times otherwise (3 times inside
\* validate_asset), makes no call after the first JSON payload, and returns
\* that payload's quality and its privacy, false when the key is absent
C14_CallsUpToFirstPayload ==
    /\ last.op = "validate_image_quality" =>
           LET first == FirstPayload(last.analysis, last.retries)
           IN  /\ last.image = "missing" => last.calls = 0
               /\ last.calls <= last.retries
               /\ first > 0 => last.calls <= first
               /\ (first > 0 /\ last.image = "ok") =>
                      /\ last.calls = first
                      /\ last.ret = PayloadPair(last.analysis[first])
    /\ last.op = "validate_asset" =>
           LET first == FirstPayload(last.analysis, 3)
           IN  /\ last.image = "missing" => last.calls = 0
               /\ last.calls <= 3
               /\ first > 0 => last.calls <= first
               /\ (first > 0 /\ last.image = "ok") =>
                      /\ last.calls = first
                      /\ << assets[last.asset].quality_score,
                            assets[last.asset].is_privacy_compliant >> =
                             PayloadPair(last.analysis[first])

\* malformed JSON, then a payload of quality 6 without a privacy key, then a
\* third answer that is never asked for
C14_SecondAnswerUsed ==
    /\ last.op = "validate_image_quality"
    /\ last.image = "ok"
    /\ last.retries = 3
    /\ last.analysis[1].kind = "badjson"
    /\ last.analysis[2] = [kind |-> "json", quality |-> Some(6), privacy |-> None]
    /\ last.analysis[3].kind = "json"
    /\ last.calls = 2
    /\ last.ret = << Some(6), Some(FALSE) >>

\* no answer of the analyzer among the first n is a payload
AllFail(script, n) == \A i \in 1..n : script[i].kind \in {"empty", "badjson", "error"}

\* C15: validate_image_quality returns (None, None) when the file is missing
\* or unreadable or when every attempt gives an empty answer, malformed JSON
\* or an analyzer error, in any mix; validate_asset then stores None in
\* quality_score and is_privacy_compliant and still appends the asset to the
\* invalid list with the two reasons for it
C15_FailuresGiveNone ==
    /\ (/\ last.op = "validate_image_quality"
        /\ last.image # "ok" \/ AllFail(last.analysis, last.retries))
           => last.ret = << None, None >>
    /\ (/\ last.op = "validate_asset"
        /\ last.image # "ok" \/ AllFail(last.analysis, 3))
           => /\ assets[last.asset].quality_score = None
              /\ assets[last.asset].is_privacy_compliant = None
              /\ last.ret = FALSE
              /\ last.trace[Len(last.trace)] = "report"
              /\ Len(validation_results.invalid) = Len(Before.validation_results.invalid) + 1
              /\ validation_results.valid = Before.validation_results.valid
              /\ LET e == validation_results.invalid[Len(validation_results.invalid)]
                 IN  /\ e.filename = assets[last.asset].filename
                     /\ \E i \in 1..Len(e.reasons) :
                            e.reasons[i] = Reason("Quality check failed")
                     /\ \E i \in 1..Len(e.reasons) :
                            e.reasons[i] = Reason("Privacy compliance check failed")

\* validate_asset on a readable file with an empty answer, an analyzer error
\* and malformed JSON
C15_ThreeKindsOfFailure ==
    /\ last.op = "validate_asset"
    /\ last.image = "ok"
    /\ last.analysis[1].kind = "empty"
    /\ last.analysis[2].kind = "error"
    /\ last.analysis[3].kind = "badjson"
    /\ last.calls = 3
    /\ assets[last.asset].quality_score = None
    /\ Len(validation_results.invalid) = 1

\* C16: validate_asset_name returns true exactly when country, language,
\* buyout_code, concept, audience, transaction_side, asset_format and
\* duration are all non-empty, whatever file_format and the other fields
\* hold, and leaves the asset as it was
C16_EightPartsDecideTheName ==
    last.op = "validate_asset_name" =>
        LET a == Before.assets[last.asset]
        IN  /\ last.ret = (/\ a.country # ""
                           /\ a.language # ""
                           /\ a.buyout_code # ""
                           /\ a.concept # ""
                           /\ a.audience # ""
                           /\ a.transaction_side # ""
                           /\ a.asset_format # ""
                           /\ a.duration # "")
            /\ assets = Before.assets

\* a name without file format, of an asset in no ad, passes the check
C16_NoFileFormat ==
    /\ last.op = "validate_asset_name"
    /\ assets[last.asset].file_format = ""
    /\ assets[last.asset].ad_id = None
    /\ assets[last.asset].duration # ""
    /\ last.ret = TRUE

\* the text the expiry table holds for the asset of the latest call
ExpiryText == last.buyout_data[Before.assets[last.asset].buyout_code]

\* C17: validate_buyout_code returns false when the code is empty, is no key
\* of the table, maps to an empty text or to a text that no format accepts,
\* or when now is after the expiry instant, and true otherwise, also when now
\* is the expiry instant
C17_BuyoutValidUntilExpiry ==
    last.op = "validate_buyout_code" =>
        LET code == Before.assets[last.asset].buyout_code
            known == code # "" /\ code \in DOMAIN last.buyout_data
            expiry == parse_expiration(ExpiryText, 1)
        IN  /\ ~known => last.ret = FALSE
            /\ (known /\ ExpiryText = EmptyText) => last.ret = FALSE
            /\ (known /\ expiry = None) => last.ret = FALSE
            /\ (known /\ expiry # None) =>
                   /\ Instant(last.now[1]) > Instant(expiry[1]) => last.ret = FALSE
                   /\ Instant(last.now[1]) < Instant(expiry[1]) => last.ret = TRUE
                   /\ Instant(last.now[1]) = Instant(expiry[1]) => last.ret = TRUE
            /\ assets = Before.assets

\* the check at midnight sharp of 2 November 2026 of a code that expires on
\* 02/11/2026
C17_AtTheExpiryInstant ==
    /\ last.op = "validate_buyout_code"
    /\ Before.assets[last.asset].buyout_code = "BUY123"
    /\ last.buyout_data = ("BUY123" :> DateText("/", 2, 11, 2026))
    /\ last.now = << [y |-> 2026, m |-> 11, d |-> 2, t |-> 0] >>
    /\ last.ret = TRUE

\* the formats that accept the text, by their place in date_formats
Accepting(text) == { i \in 1..Len(date_formats) : strptime(text, date_formats[i]) # None }

\* C18: the expiry text is read with the first of day/month/year,
\* month/day/year, year-month-day and year/month/day that accepts it:
\* 03/04/2024 is 3 April 2024, 31/12/2099 is 31 December 2099, and a text
\* that none of the four accepts makes the check fail
C18_FirstAcceptingFormat ==
    (/\ last.op = "validate_buyout_code"
     /\ Before.assets[last.asset].buyout_code \in DOMAIN last.buyout_data
     /\ ExpiryText # EmptyText) =>
        LET first == CHOOSE i \in Accepting(ExpiryText) : \A j \in Accepting(ExpiryText) : i <= j
            valid_until(date) == Instant(last.now[1]) <= Instant(date)
        IN  /\ Accepting(ExpiryText) = {} => last.ret = FALSE
            /\ Accepting(ExpiryText) # {} =>
                   last.ret = valid_until(strptime(ExpiryText, date_formats[first])[1])
            /\ ExpiryText = DateText("/", 3, 4, 2024) =>
                   last.ret = valid_until([y |-> 2024, m |-> 4, d |-> 3, t |-> 0])
            /\ ExpiryText = DateText("/", 31, 12, 2099) =>
                   last.ret = valid_until([y |-> 2099, m |-> 12, d |-> 31, t |-> 0])

\* 03/04/2024 checked on 20 March 2024: still valid as 3 April, though
\* expired were it read as 4 March
C18_ThirdOfApril ==
    /\ last.op = "validate_buyout_code"
    /\ Before.assets[last.asset].buyout_code = "BUY123"
    /\ last.buyout_data = ("BUY123" :> DateText("/", 3, 4, 2024))
    /\ last.now = << [y |-> 2024, m |-> 3, d |-> 20, t |-> 0] >>
    /\ Accepting(DateText("/", 3, 4, 2024)) = {1, 2}
    /\ last.ret = TRUE

\* the list reasons holds, for asset a, each reason exactly when its own
\* field calls for it, and nothing else
ReasonsByField(reasons, a) ==
    LET given == { reasons[i] : i \in 1..Len(reasons) }
        low == { r \in given : r.text = "Low quality score: " }
    IN  /\ Reason("Invalid filename format") \in given <=> ~a.is_valid_name
        /\ Reason("Expired or invalid buyout code") \in given <=> ~a.is_buyout_valid
        /\ Reason("Quality check failed") \in given <=> a.quality_score = None
        /\ low # {} <=> (a.quality_score # None /\ a.quality_score[1] <= 5)
        /\ \A r \in low : r.score = a.quality_score
        /\ Reason("Privacy compliance check failed") \in given
               <=> a.is_privacy_compliant = None
        /\ Reason("Not privacy compliant") \in given
               <=> a.is_privacy_compliant = Some(FALSE)
        /\ given \ low \subseteq
               { Reason("Invalid filename format"), Reason("Expired or invalid buyout code"),
                 Reason("Quality check failed"), Reason("Privacy compliance check failed"),
                 Reason("Not privacy compliant") }
        /\ Cardinality(given) = Len(reasons)

\* C19: the reasons hold 'Invalid filename format' iff is_valid_name is
\* false, 'Expired or invalid buyout code' iff is_buyout_valid is false,
\* 'Quality check failed' iff quality_score is None and otherwise
\* 'Low quality score: {score}' iff the score is at most 5, 'Privacy
\* compliance check failed' iff is_privacy_compliant is None and otherwise
\* 'Not privacy compliant' iff it is false, both when asked for directly and
\* in the entry validate_asset appends to the invalid list
C19_ReasonsFieldByField ==
    /\ last.op = "_get_validation_failure_reasons" =>
           ReasonsByField(last.ret, assets[last.asset])
    /\ (last.op = "validate_asset" /\ last.entry[1].list = "invalid") =>
           /\ validation_results.invalid # << >>
           /\ ReasonsByField(validation_results.invalid[Len(validation_results.invalid)].reasons,
                             assets[last.asset])

\* the reasons of an asset with a good name and buyout code, quality 5 and
\* no privacy result
C19_LowQualityAndNoPrivacy ==
    /\ last.op = "_get_validation_failure_reasons"
    /\ assets[last.asset].is_valid_name
    /\ assets[last.asset].is_buyout_valid
    /\ assets[last.asset].quality_score = Some(5)
    /\ assets[last.asset].is_privacy_compliant = None
    /\ last.ret = << LowQualityReason(5), Reason("Privacy compliance check failed") >>

\* the places 1..n of the levels in the order of the path: by position, and
\* by place in the settings among equal positions
PathOrder(levels) ==
    CHOOSE o \in [1..Len(levels) -> 1..Len(levels)] :
        \A i, j \in 1..Len(levels) :
            i < j => \/ levels[o[i]].position < levels[o[j]].position
                     \/ /\ levels[o[i]].position = levels[o[j]].position
                        /\ o[i] < o[j]

\* the folder name of asset a for a field
FolderName(a, field) ==
    IF field = "country" /\ a.country # "" THEN a.country
    ELSE IF field = "language" /\ a.language # "" THEN a.language
    ELSE IF field = "buyout_code" /\ a.buyout_code # "" THEN a.buyout_code
    ELSE IF field = "concept" /\ a.concept # "" THEN a.concept
    ELSE IF field = "audience" /\ a.audience # "" THEN a.audience
    ELSE IF field = "transaction_side" /\ a.transaction_side # "" THEN a.transaction_side
    ELSE IF field = "asset_format" /\ a.asset_format # "" THEN a.asset_format
    ELSE IF field = "duration" /\ a.duration # "" THEN a.duration
    ELSE IF field = "year" /\ a.production_date # None
    THEN ToString(a.production_date[1].y)
    ELSE IF field = "month" /\ a.production_date # None
    THEN ToString(a.production_date[1].m)
    ELSE "Unset"

\* C20: get_hierarchy_path returns one folder name for each level, in the
\* order of the positions and, among equal positions, of the settings; the
\* name is the asset's value for the field of the level, and 'Unset' for a
\* field name that is none of the ten known ones and for an empty value
\* (year and month without production date); the asset and the settings
\* stay as they were
C20_OneFolderPerLevel ==
    last.op = "get_hierarchy_path" =>
        LET levels == Before.hierarchy_settings
            a == Before.assets[last.asset]
        IN  /\ Len(last.ret) = Len(levels)
            /\ \A i \in 1..Len(levels) :
                   last.ret[i] = FolderName(a, levels[PathOrder(levels)[i]].field)
            /\ assets = Before.assets
            /\ hierarchy_settings = Before.hierarchy_settings

\* month and year on position 1 behind file_format on position 0, for an
\* asset produced in March 2024
C20_MonthBeforeYear ==
    /\ last.op = "get_hierarchy_path"
    /\ hierarchy_settings = << HierarchyLevel("month", 1), HierarchyLevel("file_format", 0),
                               HierarchyLevel("year", 1) >>
    /\ assets[last.asset].file_format = "jpg"
    /\ last.ret = << "Unset", "3", "2024" >>

\* the seven fields of a parse behind the country and language
ParsedFields ==
    { "buyout_code", "concept", "audience", "transaction_side", "asset_format",
      "duration", "file_format" }

\* a text that is not empty, has no blank at either end and holds no pipe
CleanText(tokens) ==
    /\ tokens # << >>
    /\ tokens[1] # " "
    /\ tokens[Len(tokens)] # " "
    /\ \A i \in 1..Len(tokens) : tokens[i] # "|"

\* C21: whenever parse_filename succeeds, each of buyout_code, concept,
\* audience, transaction_side, asset_format, duration and file_format is a
\* non-empty text without a blank at either end and without a pipe, and the
\* asset built from the parse passes validate_asset_name.
C21_ParsedFieldsAreClean ==
    /\ (last.op = "parse_filename" /\ last.ret # None)
           => \A f \in ParsedFields : CleanText(last.ret[1][f])
    /\ (last.op = "validate_asset_name"
           /\ assets["asset"].filename \in { Text(filename) : filename \in Filenames })
           => last.ret = TRUE

\* C22: asset.budget is a non-negative integer in every reachable state:
\* from a non-negative integer budget, no sequence of validate_asset,
\* update_asset_budget and adjust_budgets_by_performance calls with the
\* factors 0.8, 1.0 and 1.2, whatever the endpoint answers, makes it negative
\* or non-integral.
C22_BudgetIsNatural ==
    \A x \in DOMAIN assets : assets[x].budget \in Nat

\* the budget of 7 cut by 0.8 twice: 5.6 truncated to 5, then 4.0
C22_TruncatedTwice ==
    /\ last.op = "manager.update_asset_budget"
    /\ last.ret
    /\ last.factor = 8
    /\ Before.assets[last.asset].budget = 5
    /\ assets[last.asset].budget = 4

\* the places of the files run is to handle: those of index 10 to 19 that
\* have an id and a name
RunRange(source_files) ==
    { i \in 1..Len(source_files) :
        /\ list_index(source_files, source_files[i], 1) >= RunFirstIndex
        /\ list_index(source_files, source_files[i], 1) < RunBreakIndex
        /\ TruthyStr(source_files[i].id)
        /\ source_files[i].name # << >> }

\* C23: in the run loop a failure while handling one file (an unparsable
\* name, a sheet-data, download or transcoding error, a failed validation,
\* an upload error) never ends the handling of the files behind it: every
\* file of the range is handled, and the validation report and, with a valid
\* asset, the budget report are produced.
C23_EveryFileOfTheRangeHandled ==
    last.op = "run" =>
        /\ \A i \in RunRange(last.files) : \E j \in 1..Len(last.handled) : last.handled[j] = i
        /\ last.list # << >> => \E j \in 1..Len(last.reports) : last.reports[j] = "validation_report"
        /\ (\E j \in 1..Len(last.list) : is_valid(assets[last.list[j]]))
              => \E j \in 1..Len(last.reports) : last.reports[j] = "budget_report"

\* the last call was one of the two budget pushes
PushCall == last.op \in {"validator.update_asset_budget", "manager.update_asset_budget"}

\* C24 as stated: in both budget pushes, whenever the endpoint raises on an
\* attempt the push returns false, as on the final failed attempt, and the
\* exception does not reach the caller.
C24_RaiseReturnsFalse ==
    (PushCall /\ \E i \in 1..Len(last.responses) : last.responses[i] = "raise")
        => last.ret = FALSE

\* C24 amended: in both budget pushes an exception on an attempt is treated
\* as an error response on that attempt: on the final attempt the push
\* returns false, on an earlier one the next attempt is made; the exception
\* does not reach the caller, the push always returns true or false.
C24_RaiseIsRetried ==
    PushCall =>
        /\ last.ret \in BOOLEAN
        /\ last.calls = Len(last.responses)
        /\ \A i \in 1..Len(last.responses) :
              last.responses[i] \in {"raise", "error"} =>
                  IF i = last.retries
                  THEN last.ret = FALSE /\ last.calls = i
                  ELSE last.calls > i

\* the validator's push raised on the first attempt and succeeded on the second
C24_RaiseThenOk ==
    /\ last.op = "validator.update_asset_budget"
    /\ last.responses = << "raise", "ok" >>
    /\ last.ret = TRUE

ZeroedByValidation(x) ==
    /\ last.op = "validate_asset"
    /\ last.asset = x
    /\ ~assets[x].is_buyout_valid

\* C26: once validate_asset has found the buyout of an asset invalid and has
\* set its budget to 0, the budget stays 0 through every later call of the
\* validator and of the budget manager, the factor 1.2 included.
C26_ZeroedStaysZero ==
    \A x \in {"asset1", "asset2"} :
        [](ZeroedByValidation(x) => [](assets[x].budget = 0))

\* an asset with an invalid buyout that counts as valid and was asked the
\* factor 1.2 as the top performer of its ad: its budget went from 0 to 0
C26_TopPerformerAtZero ==
    /\ last.op = "adjust_budgets_by_performance"
    /\ \E k \in 1..Len(last.updates) :
          /\ last.updates[k].factor = 12
          /\ last.updates[k].ret
          /\ ~assets[last.updates[k].asset].is_buyout_valid
          /\ is_valid(assets[last.updates[k].asset])
          /\ last.validated >= 1
          /\ assets[last.updates[k].asset].previous_budget = Some(0)
          /\ assets[last.updates[k].asset].budget = 0

\* C27: performance_score is between 0 and 1 inclusive for every asset whose
\* clicks, impressions and conversions are non-negative integers or absent.
C27_ScoreWithinUnit ==
    (last.op = "read_rates" /\ ~IsNone(last.ret.performance_score)) =>
        /\ last.ret.performance_score[1][2] > 0
        /\ last.ret.performance_score[1][1] >= 0
        /\ last.ret.performance_score[1][1] <= last.ret.performance_score[1][2]

\* the update calls of the last adjustment that asked factor f and returned ret
UpdateCalls(f, ret) ==
    { k \in 1..Len(last.updates) : last.updates[k].factor = f /\ last.updates[k].ret = ret }

\* the filenames of the entries of a list of records
FilenamesOf(list) == { list[i].filename : i \in 1..Len(list) }

\* C28: in the summary of adjust_budgets_by_performance every eligible asset
\* is counted at most once in budgets_increased, budgets_decreased and
\* budgets_unchanged; budgets_unchanged is len(unchanged_assets); the three
\* add up to valid_assets whenever every update succeeds; an asset whose
\* update fails is counted in none of the three and is in none of the
\* changes, skipped and unchanged lists.
C28_SummaryCountsEachAssetOnce ==
    last.op = "adjust_budgets_by_performance" =>
        /\ \A x \in Eligible :
              Cardinality({ k \in 1..Len(last.updates) : last.updates[k].asset = x }) <= 1
        /\ last.summary[1].budgets_increased = Cardinality(UpdateCalls(12, TRUE))
        /\ last.summary[1].budgets_decreased = Cardinality(UpdateCalls(8, TRUE))
        /\ last.summary[1].budgets_unchanged = Len(unchanged_assets)
        /\ last.summary[1].budgets_increased + last.summary[1].budgets_decreased
              + last.summary[1].budgets_unchanged <= last.summary[1].valid_assets
        /\ (\A k \in 1..Len(last.updates) : last.updates[k].ret)
              => last.summary[1].budgets_increased + last.summary[1].budgets_decreased
                    + last.summary[1].budgets_unchanged = last.summary[1].valid_assets
        /\ \A k \in 1..Len(last.updates) :
              ~last.updates[k].ret =>
                  Before.assets[last.updates[k].asset].filename
                      \notin FilenamesOf(budget_changes) \cup FilenamesOf(skipped_assets)
                                \cup FilenamesOf(unchanged_assets)

\* C29: adjust_budgets_by_performance starts by emptying budget_changes,
\* skipped_assets and unchanged_assets, so that behind it the three lists,
\* and the report written from them, hold what this call recorded and
\* nothing of earlier adjust or update_asset_budget calls; a direct
\* update_asset_budget call adds its record to those already there.
C29_ListsOfTheLatestAdjust ==
    /\ last.op = "adjust_budgets_by_performance" =>
          /\ Len(budget_changes)
                = Cardinality({ k \in 1..Len(last.updates) : last.updates[k].ret })
          /\ \A i \in 1..Len(budget_changes) : budget_changes[i].timestamp = clock
          /\ skipped_assets = adjust_skipped(last.list, 1, Before.assets)
          /\ Len(unchanged_assets) = last.summary[1].budgets_unchanged
          /\ \A i \in 1..Len(unchanged_assets) :
                \E j \in 1..Len(last.list) :
                    /\ unchanged_assets[i].filename = Before.assets[last.list[j]].filename
                    /\ \A k \in 1..Len(last.updates) : last.updates[k].asset # last.list[j]
    /\ last.op = "manager.update_asset_budget" =>
          /\ Len(budget_changes) = Len(Before.budget_changes) + (IF last.ret THEN 1 ELSE 0)
          /\ SubSeq(budget_changes, 1, Len(Before.budget_changes)) = Before.budget_changes
          /\ last.ret => budget_changes[Len(budget_changes)].timestamp = clock
          /\ skipped_assets = Before.skipped_assets
          /\ unchanged_assets = Before.unchanged_assets

\* an adjust call behind a call that had left a change record: the lists
\* hold the records of the adjust call and the earlier record is gone
C29_EarlierRecordGone ==
    /\ last.op = "adjust_budgets_by_performance"
    /\ Len(Before.budget_changes) >= 1
    /\ Len(budget_changes) >= 1
    /\ \A i \in 1..Len(budget_changes) : budget_changes[i] # Before.budget_changes[1]

\* C30: whatever is_valid_name, is_buyout_valid, quality_score and
\* is_privacy_compliant are, an asset with is_valid false has at least one
\* failure reason, so that every entry validate_asset appends to the invalid
\* list carries a non-empty reasons list
C30_InvalidEntriesHaveReasons ==
    /\ \A i \in 1..Len(validation_results.invalid) :
           validation_results.invalid[i].reasons # << >>
    /\ \A x \in DOMAIN assets :
           ~is_valid(assets[x]) => _get_validation_failure_reasons(assets[x]) # << >>
    /\ (last.op = "_get_validation_failure_reasons" /\ ~is_valid(assets[last.asset])) =>
           last.ret # << >>
    /\ (last.op = "validate_asset" /\ ~is_valid(assets[last.asset])) =>
           /\ last.entry[1].list = "invalid"
           /\ last.entry[1].reasons # << >>
           /\ validation_results.invalid = Before.validation_results.invalid \o
                 << [filename |-> last.entry[1].filename, reasons |-> last.entry[1].reasons] >>

\* validate_asset has left an asset invalid for its privacy alone, the
\* name and the buyout good and the quality above 5, and the entry says so
C30_InvalidByPrivacyAlone ==
    /\ last.op = "validate_asset"
    /\ assets[last.asset].is_valid_name
    /\ assets[last.asset].is_buyout_valid
    /\ assets[last.asset].quality_score = Some(6)
    /\ assets[last.asset].is_privacy_compliant = Some(FALSE)
    /\ Len(validation_results.invalid) = 1
    /\ validation_results.invalid[1].reasons = << Reason("Not privacy compliant") >>

====
